---- MODULE Spec2Model ----
(***************************************************************************)
(* Verification model of the agent execution substrate:                    *)
(*   - ConcurrencyQueue      (backend/core/queue.py)                       *)
(*   - SubAgentRegistry      (backend/core/registry.py)                    *)
(*   - SpawnSubAgentTool     (backend/tools/spawn_subagent.py)             *)
(*   - DebounceSession       (backend/core/session.py)                     *)
(*   - AgentExecutor.run     (backend/core/agent.py, history windowing)    *)
(*   - GatewayHandler        (backend/api/gateway.py)                      *)
(* All coroutines run on one asyncio event loop: a step of the model is    *)
(* the code a coroutine executes between two suspension points.  The       *)
(* asyncio.Lock of the lane and of the session is never held across a      *)
(* suspension, so acquiring it never suspends.                             *)
(***************************************************************************)
EXTENDS Integers, Sequences, FiniteSets, TLC

\* ---------------------------------------------------------------- bounds
MaxJobs == 3
MaxConcurrent == 2
MaxIds == 2
MaxRuns == 2
MaxMsgs == 3
MaxWindow == 2
MaxInit == 2
MaxTurns == 3
MaxIterations == 2
MaxCalls == 2
MaxSubCalls == 2
MaxSpawns == 1
MaxChecks == 1
MaxEvents == 2
MaxApiCalls == 3
MaxClock == 1
MaxTicks == 2
MaxConnections == 2
MaxRecords == 5

VARIABLES
  \* ConcurrencyQueue
  max_concurrent,   \* self.max_concurrent
  items,            \* every QueueItem created so far, in creation order
  queue,            \* self._queue: indices into items
  running,          \* self._running: task_id -> index of the item whose task it holds
  processing,       \* self._processing
  procs,            \* number of _process_queue tasks created and not yet run
  \* SubAgentRegistry and spawn_subagent
  runs,             \* self._runs: run_id -> SubAgentRun
  store,            \* the rows of table subagent_runs: run_id -> persisted record
  delivered,        \* per listener callback and run_id, the (event, run) calls received, in order
  run_pc,           \* per run_id, where SpawnSubAgentTool.execute / run_subagent stands
  mem_history,      \* per run_id, every value the in-memory run has had, in order
  \* DebounceSession
  message_buffer,   \* self.message_buffer: the buffered messages, each with the call it came from
  response_future,  \* self._response_future: index into futures, 0 for None
  futures,          \* every Future created: 0 pending, t result of turn t, -t exception of turn t
  debounce_task,    \* state of the task self._debounce_task holds
  callers,          \* every handle_message call so far, in arrival order
  turns,            \* every AgentExecutor.run invocation of the session, in order
  \* AgentExecutor
  max_history_messages,  \* config.agent.max_history_messages
  message_history,  \* self._message_history: the roles of its messages
  turn_pc,          \* where the current run() stands
  last_turn,        \* how the last run() ended
  turn_count,       \* number of run() invocations so far
  history_turn,     \* for each message of the history, the run() invocation that appended it (0: before the first)
  cleared_before,   \* the number of run() invocations begun when clear_history() was last called (-1: never)
  \* GatewayHandler
  frame,            \* the inbound frame given to process_message
  response,         \* what process_message returned for it
  \* AgentExecutor.run: the provider loop and _execute_tool
  role,             \* self.role
  enabled,          \* access_control.enabled
  loop_pc,          \* where the loop of run() stands
  iteration,        \* iteration
  tool_calls,       \* response.tool_calls of the current iteration: tool names
  call_idx,         \* number of calls of tool_calls already handled
  messages,         \* what the turn appended to the prompt list messages
  requests,         \* per provider.generate call, the length of messages it was given
  executions,       \* every tool.execute(**arguments) invocation of the turn
  events,           \* the events emitted by the turn
  final_response,   \* final_response
  abort_cause,       \* what made the last run() leave through an exception
  \* sub-agent runners
  runner,  \* per run_id, the AgentExecutor run_subagent created: its tool set and the tool calls its provider asked for
  spawn_calls,  \* every SpawnSubAgentTool.execute call: who made it, and the run it created
  \* AccessControl
  access_control,  \* the AccessControl instance asked: its enabled, default_role and roles
  permission_checks,  \* every check_permission(role, tool_name) call on it, with what it returned
  \* WebSocketManager
  connections,  \* self._connections: session_id -> set of websockets
  socket_state,  \* per websocket, what a send_text on it does: it returns, raises or never returns
  received,  \* per websocket, the events sent to it, in order
  hub_calls,  \* every send_to_session / broadcast call so far, with where its loop stands
  \* websocket_endpoint: the receive loop of a connection
  ws_frames,  \* every chat.send frame the client sent on the connection, in order, with its handle_message call and its response
  ws_pc,  \* where the receive loop stands: at receive_text or inside process_message
  \* CronScheduler
  cron_jobs,  \* store._jobs: job id -> the CronJob
  clock,  \* datetime.now().timestamp()
  tick,  \* the scheduler loop: where it stands, the now and the job list of its tick
  firings,  \* every executor call of _run_job, in order, with its outcome
  \* PluginRegistry
  plugin_classes,  \* the hooks property of each plugin class of plugin_map: name -> events
  plugin_instances,  \* every plugin object created so far, with its _initialized flag
  plugin_registry,  \* self._plugins (name -> object) and self._hooks (event -> handlers)
  hook_calls,  \* the handlers the last trigger_hook invoked, in order
  \* SessionTrace objects of one session id
  trace_sessions,  \* the SessionTrace of each AgentExecutor of the session: created, _turn, inside a turn
  journal  \* events.jsonl of the session: the records appended, in order

laneVars == <<max_concurrent, items, queue, running, processing, procs>>

regVars == <<runs, store, delivered, run_pc, mem_history>>

sessVars == <<message_buffer, response_future, futures, debounce_task, callers, turns>>

histVars == <<max_history_messages, message_history, turn_pc, last_turn, turn_count, history_turn, cleared_before>>

gwVars == <<frame, response>>

loopVars == <<role, enabled, loop_pc, iteration, tool_calls, call_idx, messages,
              requests, executions, events, final_response, abort_cause>>

subVars == <<runner, spawn_calls>>

acVars == <<access_control, permission_checks>>

hubVars == <<connections, socket_state, received, hub_calls>>

connVars == <<ws_frames, ws_pc>>

cronVars == <<cron_jobs, clock, tick, firings>>

plugVars == <<plugin_classes, plugin_instances, plugin_registry, hook_calls>>

traceVars == <<trace_sessions, journal>>

\* the components the sub-agent machinery does not touch
appVars == <<sessVars, histVars, gwVars, loopVars, subVars, acVars, hubVars, connVars, cronVars, plugVars, traceVars>>

vars == <<laneVars, regVars, sessVars, histVars, gwVars, loopVars, subVars, acVars, hubVars, connVars, cronVars, plugVars, traceVars>>

\* ------------------------------------------------------------ helpers
TaskIds == 1..MaxIds

Put(f, key, val) == [x \in (DOMAIN f) \cup {key} |-> IF x = key THEN val ELSE f[x]]

Pop(f, key) == [x \in (DOMAIN f) \ {key} |-> f[x]]

RemoveAt(s, i) == [j \in 1..(Len(s) - 1) |-> IF j < i THEN s[j] ELSE s[j + 1]]

\* ---------------------------------------------------- ConcurrencyQueue
\* get_status()["active"] / active_count
active_count == Cardinality(DOMAIN running)

\* get_status()["queued"] / queued_count
queued_count == Len(queue)

\* operations the lane has started and that have not ended
Executing == {k \in 1..Len(items) : items[k].task \in {"created", "executing", "cancelling"}}

NewItem(id) == [task_id |-> id, future |-> "pending", task |-> "none"]

\* the while-loop of _process_queue, run to its break
RECURSIVE DispatchOverAdmit(_, _, _)
DispatchOverAdmit(q, run, its) ==
  IF Cardinality(DOMAIN run) > max_concurrent \/ q = <<>>
  THEN [queue |-> q, running |-> run, items |-> its]
  ELSE DispatchOverAdmit(Tail(q), Put(run, its[Head(q)].task_id, Head(q)),
                         [its EXCEPT ![Head(q)].task = "created"])

\* _process_queue taking the newest queued item instead of the oldest
RECURSIVE DispatchNewestFirst(_, _, _)
DispatchNewestFirst(q, run, its) ==
  IF Cardinality(DOMAIN run) >= max_concurrent \/ q = <<>>
  THEN [queue |-> q, running |-> run, items |-> its]
  ELSE DispatchNewestFirst(SubSeq(q, 1, Len(q) - 1), Put(run, its[q[Len(q)]].task_id, q[Len(q)]),
                           [its EXCEPT ![q[Len(q)]].task = "created"])

RECURSIVE Dispatch(_, _, _)
Dispatch(q, run, its) ==
  IF Cardinality(DOMAIN run) >= max_concurrent \/ q = <<>>
  THEN [queue |-> q, running |-> run, items |-> its]
  ELSE Dispatch(Tail(q), Put(run, its[Head(q)].task_id, Head(q)),
                [its EXCEPT ![Head(q)].task = "created"])

\* enqueue(task_id, coroutine): append under the lock, then start a processor
LaneEnqueue(id) ==
  /\ items' = Append(items, NewItem(id))
  /\ queue' = Append(queue, Len(items) + 1)
  /\ procs' = IF ~processing THEN procs + 1 ELSE procs
  /\ UNCHANGED <<max_concurrent, running, processing>>

\* one _process_queue task, from start to end (it never suspends)
LaneProcessQueue ==
  /\ procs > 0
  /\ LET d == Dispatch(queue, running, items) IN
       /\ queue' = d.queue
       /\ running' = d.running
       /\ items' = d.items
  /\ procs' = procs - 1
  /\ processing' = FALSE
  /\ UNCHANGED max_concurrent

\* first step of the task of _run_item: the operation is called.  The event
\* loop runs ready callbacks in the order they were scheduled, so the tasks
\* _process_queue created (in queue order, which is the order of items) take
\* their first step in that order
LaneStart(k) ==
  /\ k \in 1..Len(items)
  /\ items[k].task = "created"
  /\ \A j \in 1..(k - 1) : items[j].task # "created"
  /\ items' = [items EXCEPT ![k].task = "executing"]
  /\ UNCHANGED <<max_concurrent, queue, running, processing, procs>>

\* the finally block of _run_item
LaneReleaseNoRearm(k) ==
  /\ running' = Pop(running, items[k].task_id)
  /\ UNCHANGED <<max_concurrent, queue, processing, procs>>

LaneRelease(k) ==
  /\ running' = Pop(running, items[k].task_id)
  /\ procs' = IF queue # <<>> /\ ~processing THEN procs + 1 ELSE procs
  /\ UNCHANGED <<max_concurrent, queue, processing>>

\* the operation returned (outcome "result") or raised (outcome "exception")
LaneFinish(k, outcome) ==
  /\ k \in 1..Len(items)
  /\ items[k].task = "executing"
  /\ items' = [items EXCEPT ![k].task = "done",
                            ![k].future = IF @ = "pending" THEN outcome ELSE @]
  /\ LaneRelease(k)

\* CancelledError is delivered to the operation of a task cancelled while it ran:
\* it is no Exception, so only the finally block runs and the future is left alone
LaneCancelled(k) ==
  /\ k \in 1..Len(items)
  /\ items[k].task = "cancelling"
  /\ items' = [items EXCEPT ![k].task = "cancelled"]
  /\ LaneRelease(k)

QueuedWith(id) == {i \in 1..Len(queue) : items[queue[i]].task_id = id}

FirstQueued(id) == CHOOSE i \in QueuedWith(id) : \A j \in QueuedWith(id) : i <= j

\* Task.cancel() on the task of item k
TaskCancel(its, k) ==
  IF its[k].task = "created" THEN [its EXCEPT ![k].task = "cancelled"]
  ELSE IF its[k].task = "executing" THEN [its EXCEPT ![k].task = "cancelling"]
  ELSE its

\* cancel(task_id); CancelReturn is its return value
CancelReturn(id) == QueuedWith(id) # {} \/ id \in DOMAIN running

LaneCancel(id) ==
  /\ IF QueuedWith(id) # {}
     THEN /\ queue' = RemoveAt(queue, FirstQueued(id))
          /\ items' = [items EXCEPT ![queue[FirstQueued(id)]].future =
                                       IF @ = "pending" THEN "cancelled" ELSE @]
     ELSE IF id \in DOMAIN running
     THEN /\ queue' = queue
          /\ items' = TaskCancel(items, running[id])
     ELSE UNCHANGED <<queue, items>>
  /\ UNCHANGED <<max_concurrent, running, processing, procs>>


\* ---------------------------------------------------- SubAgentRegistry
Sessions == {"s1", "s2"}

RunIds == 1..MaxRuns

Terminal == {"completed", "error", "timeout"}

\* self._listeners: the callbacks added for each session, in list order
listeners == [s \in Sessions |-> IF s = "s1" THEN <<1, 2>> ELSE <<3>>]

ListenerIds == {1, 2, 3}

\* SubAgentRun(parent_session_id=..., status=PENDING); None is "none",
\* a timestamp is TRUE once set
NewRun(s) ==
  [parent_session_id |-> s, status |-> "pending", result |-> "none", error |-> "none",
   started_at |-> FALSE, completed_at |-> FALSE]

\* update_status up to its first suspension: the fields of the in-memory run
UpdateStatus(run, status, result, error) ==
  [run EXCEPT
     !.status = status,
     !.result = IF result # "none" THEN result ELSE @,
     !.error = IF error # "none" THEN error ELSE @,
     !.started_at = IF status = "running" /\ ~@ THEN TRUE ELSE @,
     !.completed_at = IF ~(status = "running" /\ ~run.started_at) /\ status \in Terminal
                      THEN TRUE ELSE @]

Event(ev, r, run) ==
  [event |-> ev, run_id |-> r, status |-> run.status, result |-> run.result, error |-> run.error]

SeqToSet(s) == {s[i] : i \in 1..Len(s)}

\* _notify: every callback of the session is called with (event, run)
Notify(session_id, ev, r, run) ==
  delivered' = [l \in ListenerIds |->
                  IF l \in SeqToSet(listeners[session_id])
                  THEN [delivered[l] EXCEPT ![r] = Append(@, Event(ev, r, run))]
                  ELSE delivered[l]]

\* list_by_session
list_by_session(session_id) == {r \in DOMAIN runs : runs[r].parent_session_id = session_id}

\* the item the lane holds for run r
ItemOf(r) == CHOOSE k \in 1..Len(items) : items[k].task_id = r

\* a _persist call for run r is between its start and its end
PersistPcs == {"register_persist", "running_persist", "completed_persist",
               "timeout_persist", "error_persist"}

writes_in_flight(r) == IF run_pc[r] \in PersistPcs THEN 1 ELSE 0

\* the in-memory run of r takes the value run, and _persist(run) starts
SetRun(r, run, pc) ==
  /\ runs' = Put(runs, r, run)
  /\ mem_history' = [mem_history EXCEPT ![r] = Append(@, run)]
  /\ run_pc' = [run_pc EXCEPT ![r] = pc]

RegistryIdle ==
  /\ runs = <<>>
  /\ store = <<>>
  /\ delivered = [l \in ListenerIds |-> [r \in RunIds |-> <<>>]]
  /\ run_pc = [r \in RunIds |-> "new"]
  /\ mem_history = [r \in RunIds |-> <<>>]

LaneNew ==
  /\ max_concurrent \in 1..MaxConcurrent
  /\ items = <<>>
  /\ queue = <<>>
  /\ running = <<>>
  /\ processing = FALSE
  /\ procs = 0

LaneIdle == LaneNew /\ max_concurrent = MaxConcurrent

\* DebounceSession.__init__
SessionIdle ==
  /\ message_buffer = <<>>
  /\ response_future = 0
  /\ futures = <<>>
  /\ debounce_task = "none"
  /\ callers = <<>>
  /\ turns = <<>>

\* AgentExecutor.__init__ under the largest window of the model
HistoryIdle ==
  /\ max_history_messages = MaxWindow
  /\ message_history = <<>>
  /\ turn_pc = "idle"
  /\ last_turn = "none"
  /\ turn_count = 0
  /\ history_turn = [i \in 1..Len(message_history) |-> 0]
  /\ cleared_before = 0 - 1

NoFrame == [syntax |-> "none", method |-> "absent", id |-> "absent", params |-> "absent", session |-> "none"]

NoResponse == [sent |-> FALSE, id |-> "null", error |-> 0, result |-> "null"]

GatewayIdle == frame = NoFrame /\ response = NoResponse

\* no run() has entered its loop; the role is the admin of the role table
LoopIdle ==
  /\ role = "admin"
  /\ enabled = FALSE
  /\ loop_pc = "none"
  /\ iteration = 0
  /\ tool_calls = <<>>
  /\ call_idx = 0
  /\ messages = <<>>
  /\ requests = <<>>
  /\ executions = <<>>
  /\ events = <<>>
  /\ final_response = ""
  /\ abort_cause = "none"

\* no runner has been created, spawn_subagent has not been called
SubagentIdle ==
  /\ runner = [r \in RunIds |-> [created |-> FALSE, tools |-> {}, calls |-> <<>>]]
  /\ spawn_calls = <<>>

\* AccessControl.__init__ before _load_config: no roles, nothing asked
AccessIdle ==
  /\ access_control = [enabled |-> FALSE, default_role |-> "user", roles |-> <<>>]
  /\ permission_checks = <<>>

WebSockets == {"w1", "w2", "w3"}

\* WebSocketManager.__init__; no websocket has been accepted yet
HubIdle ==
  /\ connections = <<>>
  /\ socket_state = [w \in WebSockets |-> "new"]
  /\ received = [w \in WebSockets |-> <<>>]
  /\ hub_calls = <<>>

\* what next_run, last_run hold when they are None
None == 0 - 99

JobIds == {"j1", "j2"}

\* a scheduler that was never started, over an empty store
CronIdle ==
  /\ cron_jobs = <<>>
  /\ clock = 0
  /\ tick = [pc |-> "stopped", now |-> 0, jobs |-> <<>>, pos |-> 0, n |-> 0]
  /\ firings = <<>>

PluginNames == {"core", "memory"}

HookEvents == {"on_agent_start", "on_tool_start"}

\* PluginRegistry.__init__, no plugin object created yet
PluginsIdle ==
  /\ plugin_classes = [n \in PluginNames |-> {}]
  /\ plugin_instances = <<>>
  /\ plugin_registry = [plugins |-> <<>>, hooks |-> [e \in HookEvents |-> <<>>]]
  /\ hook_calls = <<>>

\* the executors that trace under the session id: its planner and the
\* runners of the sub-agents it spawns
Tracers == {"planner", "sub1", "sub2"}

NoTrace == [created |-> FALSE, turn |-> 0, in_turn |-> FALSE]

\* no executor of the session exists yet
TraceIdle ==
  /\ trace_sessions = [w \in Tracers |-> NoTrace]
  /\ journal = <<>>

\* the connection is accepted, the loop waits for the first frame
ConnectionIdle ==
  /\ ws_frames = <<>>
  /\ ws_pc = "receive"

InitLane ==
  /\ LaneNew
  /\ RegistryIdle
  /\ SessionIdle
  /\ HistoryIdle
  /\ GatewayIdle
  /\ LoopIdle
  /\ SubagentIdle
  /\ AccessIdle
  /\ HubIdle
  /\ ConnectionIdle
  /\ CronIdle
  /\ PluginsIdle
  /\ TraceIdle

\* --------------------------------------------- the lane under any caller
Enqueue ==
  /\ Len(items) < MaxJobs
  /\ \E id \in TaskIds : LaneEnqueue(id)
  /\ UNCHANGED <<regVars, appVars>>

ProcessQueue == LaneProcessQueue /\ UNCHANGED <<regVars, appVars>>

RunItemStart == (\E k \in 1..Len(items) : LaneStart(k)) /\ UNCHANGED <<regVars, appVars>>

RunItemFinish ==
  /\ \E k \in 1..Len(items), outcome \in {"result", "exception"} : LaneFinish(k, outcome)
  /\ UNCHANGED <<regVars, appVars>>

RunItemCancelled == (\E k \in 1..Len(items) : LaneCancelled(k)) /\ UNCHANGED <<regVars, appVars>>

Cancel == (\E id \in TaskIds : LaneCancel(id)) /\ UNCHANGED <<regVars, appVars>>

NextLane ==
  \/ Enqueue
  \/ ProcessQueue
  \/ RunItemStart
  \/ RunItemFinish
  \/ RunItemCancelled
  \/ Cancel

SpecLane == InitLane /\ [][NextLane]_vars

CancelledQueued(k) == items[k].task = "none" /\ items[k].future = "cancelled"

StartsNow(k) == items[k].task = "created" /\ items'[k].task = "executing"

DispatchedNow(k) == items[k].task = "none" /\ items'[k].task = "created"

\* C14: dispatch is FIFO: when a job is handed to a task, and when its
\* operation starts, no job enqueued before it and not cancelled while
\* queued is still waiting for the same.
C14_Fifo ==
  [][\A b \in 1..Len(items) : \A a \in 1..(b - 1) :
       /\ (DispatchedNow(b) /\ ~CancelledQueued(a)) => items'[a].task # "none"
       /\ (StartsNow(b) /\ ~CancelledQueued(a)) => items[a].task \notin {"none", "created"}]_vars

\* with one slot: the first job is done, the second runs, the third waits
C14_Witness ==
  /\ Len(items) >= 3
  /\ items[1].task = "done"
  /\ items[2].task = "executing"
  /\ items[3].task = "none"
  /\ queue # <<>>

\* a job under id is waiting in the queue, or has a task that has not ended
QueuedOrRunning(id) ==
  \E k \in 1..Len(items) :
    /\ items[k].task_id = id
    /\ k \in {queue[i] : i \in 1..Len(queue)} \/ k \in Executing

\* C15: cancel(id) returns true exactly when a job under id is queued or
\* running at the call; a job cancelled while queued is out of the queue,
\* was never handed to a task and has a cancelled handle.
C15_CancelSemantics ==
  /\ \A id \in TaskIds : CancelReturn(id) <=> QueuedOrRunning(id)
  /\ \A k \in 1..Len(items) :
       items[k].future = "cancelled" =>
         (items[k].task = "none" /\ \A i \in 1..Len(queue) : queue[i] # k)

\* a job was cancelled between its dispatch and the first step of its task
C15_Witness ==
  \E k \in 1..Len(items) :
    /\ items[k].task = "cancelled"
    /\ items[k].task_id \in DOMAIN running
    /\ running[items[k].task_id] = k

\* C16: every job that was dispatched and whose id is not among
\* get_status().running_ids has a handle that is done.
C16_DoneBeforeUnlisted ==
  \A k \in 1..Len(items) :
    (items[k].task # "none" /\ items[k].task_id \notin DOMAIN running) =>
      items[k].future # "pending"

\* a job cancelled while it ran has left the running set
C16_Witness ==
  \E k \in 1..Len(items) :
    /\ items[k].task = "cancelled"
    /\ items[k].task_id \notin DOMAIN running

\* the lane under any caller, with the event loop running every ready task
\* and every operation ending (by itself or by the CancelledError it is sent)
SpecLaneFair ==
  /\ InitLane
  /\ [][NextLane]_vars
  /\ WF_vars(ProcessQueue)
  /\ WF_vars(RunItemStart)
  /\ WF_vars(RunItemFinish)
  /\ WF_vars(RunItemCancelled)

\* the task of item k has ended: its operation returned, raised or was cancelled
LeftLane(k) == items[k].task \in {"done", "cancelled"}

\* C17: the handle of every job whose operation has terminated or was
\* cancelled gets resolved (result, failure or cancelled): no handle of a
\* job that left the lane stays pending forever.
C17_HandlesResolve ==
  \A k \in 1..MaxJobs :
    (Len(items) >= k /\ LeftLane(k)) ~> (Len(items) >= k /\ items[k].future # "pending")

\* a job left the lane through a cancellation while a later job finished
C17_Witness ==
  \E k, j \in 1..Len(items) :
    /\ items[k].task = "cancelled"
    /\ items[j].task = "done"
    /\ items[j].future = "result"

\* C38: get_status().active is the number of operations the lane has started
\* and that have not ended, whatever was enqueued, two jobs under one job_id
\* included.
C38_ActiveIsExecuting == active_count = Cardinality(Executing)

\* two jobs enqueued under one job_id are both executing, nothing was cancelled
C38_Witness ==
  \E j, k \in 1..Len(items) :
    /\ j < k
    /\ items[j].task_id = items[k].task_id
    /\ items[j].task = "executing"
    /\ items[k].task = "executing"
    /\ \A i \in 1..Len(items) : items[i].task # "cancelled" /\ items[i].future # "cancelled"

\* ------------------------------- the lane as spawn_subagent drives it
\* spawn_subagent enqueues each job under its run_id, a fresh uuid4
EnqueueFresh ==
  /\ Len(items) < MaxJobs
  /\ LaneEnqueue(Len(items) + 1)
  /\ UNCHANGED <<regVars, appVars>>

NextLaneLive ==
  \/ EnqueueFresh
  \/ ProcessQueue
  \/ RunItemStart
  \/ RunItemFinish

\* the event loop runs every ready task, and every operation terminates
SpecLaneLive ==
  /\ InitLane
  /\ [][NextLaneLive]_vars
  /\ WF_vars(ProcessQueue)
  /\ WF_vars(RunItemStart)
  /\ WF_vars(RunItemFinish)

started_count == Cardinality({k \in 1..Len(items) : items[k].task # "none"})

FinishStep == \E k \in 1..Len(items) : items[k].task = "executing" /\ items'[k].task = "done"

\* C10: a job that finishes frees its slot, a free slot with jobs queued leads
\* to a queued job starting, every enqueued job eventually starts and the
\* queue drains, provided every operation terminates.
C10_RefillAndDrain ==
  /\ [][FinishStep => active_count' = active_count - 1]_vars
  /\ \A n \in 0..MaxJobs :
       (started_count = n /\ queue # <<>> /\ active_count < max_concurrent)
         ~> (started_count > n)
  /\ \A k \in 1..MaxJobs :
       (Len(items) >= k) ~> (Len(items) >= k /\ items[k].task # "none")
  /\ []<>(queue = <<>>)

\* a job has finished while another waited, and the waiting job was started
C10_Witness ==
  /\ Len(items) > max_concurrent
  /\ queue = <<>>
  /\ \E k \in 1..Len(items) : items[k].task = "done"
  /\ items[Len(items)].task = "executing"
  /\ active_count = max_concurrent

\* ------------------------------------ spawn_subagent over the registry
\* the planners of the two sessions call spawn_subagent in turn (runs on different
\* sessions share nothing but the lane)
SpawningSession(r) == IF r % 2 = 1 THEN "s1" ELSE "s2"

\* SpawnSubAgentTool.execute up to register's _persist: the run is created
\* under a fresh run_id and stored in self._runs
SpawnExecute(r, s) ==
  /\ r \in RunIds
  /\ s = SpawningSession(r)
  /\ run_pc[r] = "new"
  /\ \A q \in RunIds : q < r => run_pc[q] # "new"
  /\ SetRun(r, NewRun(s), "register_persist")
  /\ UNCHANGED <<store, delivered>>

\* register after its _persist: 'registered' is notified, execute creates the
\* task of subagent_queue.enqueue and returns its ToolResult
RegisterNoNotify(r) ==
  /\ run_pc[r] = "register_persist"
  /\ store' = Put(store, r, runs[r])
  /\ UNCHANGED delivered
  /\ run_pc' = [run_pc EXCEPT ![r] = "enqueue_task"]
  /\ UNCHANGED <<runs, mem_history>>

RegisterPersisted(r) ==
  /\ run_pc[r] = "register_persist"
  /\ store' = Put(store, r, runs[r])
  /\ Notify(runs[r].parent_session_id, "registered", r, runs[r])
  /\ run_pc' = [run_pc EXCEPT ![r] = "enqueue_task"]
  /\ UNCHANGED <<runs, mem_history>>

\* the store write of register raises: execute raises, nothing is enqueued
RegisterFailed(r) ==
  /\ run_pc[r] = "register_persist"
  /\ run_pc' = [run_pc EXCEPT ![r] = "spawn_failed"]
  /\ UNCHANGED <<runs, store, delivered, mem_history>>

\* the task created by execute runs subagent_queue.enqueue(run.run_id, run_subagent)
EnqueueTask(r) ==
  /\ run_pc[r] = "enqueue_task"
  /\ LaneEnqueue(r)
  /\ run_pc' = [run_pc EXCEPT ![r] = "in_lane"]
  /\ UNCHANGED <<runs, store, delivered, mem_history>>

\* run_subagent starts: update_status(run_id, RUNNING) up to its _persist
RunSubagentSkipRunning(r) ==
  /\ run_pc[r] = "in_lane"
  /\ LaneStart(ItemOf(r))
  /\ run_pc' = [run_pc EXCEPT ![r] = "agent"]
  /\ UNCHANGED <<runs, store, delivered, mem_history>>

RunSubagentStart(r) ==
  /\ run_pc[r] = "in_lane"
  /\ LaneStart(ItemOf(r))
  /\ SetRun(r, UpdateStatus(runs[r], "running", "none", "none"), "running_persist")
  /\ UNCHANGED <<store, delivered>>

\* where run_subagent goes on after an update_status that returned
AfterUpdate(pc) == IF pc = "running_persist" THEN "agent" ELSE "op_return"

\* update_status after its _persist: the row is written, 'updated' is notified
UpdatePersisted(r) ==
  /\ run_pc[r] \in PersistPcs \ {"register_persist"}
  /\ store' = Put(store, r, runs[r])
  /\ Notify(runs[r].parent_session_id, "updated", r, runs[r])
  /\ run_pc' = [run_pc EXCEPT ![r] = AfterUpdate(@)]
  /\ UNCHANGED <<runs, mem_history, laneVars>>

\* the store write of update_status raises inside the try block of run_subagent:
\* 'except Exception' calls update_status(run_id, ERROR, error=str(e))
UpdateFailedInTry(r) ==
  /\ run_pc[r] \in {"running_persist", "completed_persist"}
  /\ SetRun(r, UpdateStatus(runs[r], "error", "none", "store write failed"), "error_persist")
  /\ UNCHANGED <<store, delivered, laneVars>>

\* the store write raises inside an except block: run_subagent raises
UpdateFailedInExcept(r) ==
  /\ run_pc[r] \in {"timeout_persist", "error_persist"}
  /\ run_pc' = [run_pc EXCEPT ![r] = "op_raise"]
  /\ UNCHANGED <<runs, store, delivered, mem_history, laneVars>>

\* runner.run_subagent(task, run_id) returns its result, or raises
AgentOutcome(r, out) ==
  /\ run_pc[r] = "agent"
  /\ \/ /\ out = "result"
        /\ SetRun(r, UpdateStatus(runs[r], "completed", "answer", "none"), "completed_persist")
     \/ /\ out = "timeout"
        /\ SetRun(r, UpdateStatus(runs[r], "timeout", "none", "Subagent execution timed out"),
                  "timeout_persist")
     \/ /\ out = "exception"
        /\ SetRun(r, UpdateStatus(runs[r], "error", "none", "agent failed"), "error_persist")
  /\ UNCHANGED <<store, delivered, laneVars>>

\* run_subagent has returned or raised: _run_item resolves the future and releases
RunSubagentEnd(r) ==
  /\ run_pc[r] \in {"op_return", "op_raise"}
  /\ LaneFinish(ItemOf(r), IF run_pc[r] = "op_return" THEN "result" ELSE "exception")
  /\ run_pc' = [run_pc EXCEPT ![r] = "done"]
  /\ UNCHANGED <<runs, store, delivered, mem_history>>

Spawn == (\E r \in RunIds, s \in Sessions : SpawnExecute(r, s)) /\ UNCHANGED <<laneVars, appVars>>

RegisterDone == (\E r \in RunIds : RegisterPersisted(r)) /\ UNCHANGED <<laneVars, appVars>>

RegisterError == (\E r \in RunIds : RegisterFailed(r)) /\ UNCHANGED <<laneVars, appVars>>

EnqueueRun == (\E r \in RunIds : EnqueueTask(r)) /\ UNCHANGED appVars

StartRun == (\E r \in RunIds : RunSubagentStart(r)) /\ UNCHANGED appVars

UpdateDone == (\E r \in RunIds : UpdatePersisted(r)) /\ UNCHANGED appVars

UpdateErrorInTry == (\E r \in RunIds : UpdateFailedInTry(r)) /\ UNCHANGED appVars

UpdateErrorInExcept == (\E r \in RunIds : UpdateFailedInExcept(r)) /\ UNCHANGED appVars

AgentDone == (\E r \in RunIds, out \in {"result", "timeout", "exception"} : AgentOutcome(r, out)) /\ UNCHANGED appVars

EndRun == (\E r \in RunIds : RunSubagentEnd(r)) /\ UNCHANGED appVars

NextRegistry ==
  \/ Spawn
  \/ RegisterDone
  \/ RegisterError
  \/ EnqueueRun
  \/ ProcessQueue
  \/ StartRun
  \/ UpdateDone
  \/ UpdateErrorInTry
  \/ UpdateErrorInExcept
  \/ AgentDone
  \/ EndRun

SpecRegistry == InitLane /\ [][NextRegistry]_vars

\* where run_subagent is suspended while its operation runs
SuspendedPcs == (PersistPcs \ {"register_persist"}) \cup {"agent"}

\* subagent_queue.cancel(run_id) while the job of run r is in the lane.  A job
\* still queued is removed and its future cancelled; the task of a dispatched
\* job gets Task.cancel(): run_subagent, suspended in an await, will be resumed
\* with CancelledError, and a store write it was waiting for may or may not
\* have been committed (lands)
RunCancel(r, lands) ==
  /\ run_pc[r] \in {"in_lane"} \cup SuspendedPcs
  /\ CancelReturn(r)
  /\ LaneCancel(r)
  /\ IF run_pc[r] \in SuspendedPcs
     THEN /\ run_pc' = [run_pc EXCEPT ![r] = "op_cancelling"]
          /\ store' = IF lands /\ run_pc[r] \in PersistPcs THEN Put(store, r, runs[r]) ELSE store
     ELSE UNCHANGED <<run_pc, store>>
  /\ UNCHANGED <<runs, delivered, mem_history>>

\* CancelledError reaches run_subagent: neither 'except asyncio.TimeoutError'
\* nor 'except Exception' catches it, no update_status is called, and
\* _run_item runs its finally block only
RunSubagentCancelled(r) ==
  /\ run_pc[r] = "op_cancelling"
  /\ LaneCancelled(ItemOf(r))
  /\ run_pc' = [run_pc EXCEPT ![r] = "cancelled"]
  /\ UNCHANGED <<runs, store, delivered, mem_history>>

CancelRun == (\E r \in RunIds, lands \in BOOLEAN : RunCancel(r, lands)) /\ UNCHANGED appVars

CancelledRun == (\E r \in RunIds : RunSubagentCancelled(r)) /\ UNCHANGED appVars

NextRegistryCancel ==
  \/ NextRegistry
  \/ CancelRun
  \/ CancelledRun

\* spawn_subagent with jobs cancelled through the lane; every task that can
\* take a step takes it
SpecRegistryCancel ==
  /\ InitLane
  /\ [][NextRegistryCancel]_vars
  /\ WF_vars(RegisterDone)
  /\ WF_vars(EnqueueRun)
  /\ WF_vars(ProcessQueue)
  /\ WF_vars(StartRun)
  /\ WF_vars(UpdateDone)
  /\ WF_vars(AgentDone)
  /\ WF_vars(EndRun)
  /\ WF_vars(CancelledRun)

\* ------------------------------------------------ registry: the claims
Rank(st) == IF st = "pending" THEN 0 ELSE IF st = "running" THEN 1 ELSE 2

MonotonePath(seq) ==
  \A i, j \in 1..Len(seq) :
    i < j => /\ Rank(seq[i]) <= Rank(seq[j])
             /\ (seq[i] \in Terminal => seq[j] = seq[i])

HeldStatuses(r) == [i \in 1..Len(mem_history[r]) |-> mem_history[r][i].status]

DeliveredStatuses(l, r) == [i \in 1..Len(delivered[l][r]) |-> delivered[l][r][i].status]

DeliveredEvents(l, r) == [i \in 1..Len(delivered[l][r]) |-> delivered[l][r][i].event]

ListenersOf(r) == SeqToSet(listeners[SpawningSession(r)])

\* C2: per run, the statuses the registry holds and the statuses delivered to
\* listeners never go back: no earlier status after a later one, no other
\* status after a terminal one, no RUNNING after a terminal one.
C2_StatusPath ==
  \A r \in RunIds :
    /\ MonotonePath(HeldStatuses(r))
    /\ \A l \in ListenerIds : MonotonePath(DeliveredStatuses(l, r))

\* C6: per run at most one store write is in flight, every stored record is a
\* value the in-memory run has had, and with no write in flight the stored
\* record equals the in-memory run.
C6_PersistenceConsistent ==
  \A r \in RunIds :
    /\ writes_in_flight(r) <= 1
    /\ (r \in DOMAIN store => store[r] \in SeqToSet(mem_history[r]))
    /\ (r \in DOMAIN runs /\ writes_in_flight(r) = 0
          => r \in DOMAIN store /\ store[r] = runs[r])

\* C7: every listener receives 'registered' for a run before any 'updated'
\* for that run.
C7_RegisteredFirst ==
  \A l \in ListenerIds, r \in RunIds :
    \A i \in 1..Len(delivered[l][r]) :
      delivered[l][r][i].event = "updated"
        => \E j \in 1..(i - 1) : delivered[l][r][j].event = "registered"

\* two listeners of one session have received 'updated' after 'registered' for a
\* run while the run of the other session is still in the lane or before it
C7_Witness ==
  \E r \in RunIds, q \in RunIds :
    /\ r # q
    /\ \A l \in ListenersOf(r) : DeliveredEvents(l, r) = <<"registered", "updated">>
    /\ Cardinality(ListenersOf(r)) = 2
    /\ run_pc[q] \in {"enqueue_task", "in_lane", "running_persist"}

\* execute has returned its success ToolResult for run r
SpawnReturned(r) == run_pc[r] \notin {"new", "register_persist", "spawn_failed"}

\* run_subagent has completed run r: update_status(COMPLETED) has returned
RunCompleted(r) == run_pc[r] \in {"op_return", "done"} /\ runs[r].status = "completed"

\* C9: spawn_subagent returns once the run is registered as PENDING, before the
\* lane has dispatched it; the listeners of the session then see registered
\* (PENDING), updated(RUNNING), updated(COMPLETED, result) in that order, and
\* list_by_session(session) holds the run from registration on.
C9_SpawnLifecycle ==
  \A r \in RunIds :
    /\ run_pc[r] = "enqueue_task"
         => runs[r].status = "pending" /\ \A k \in 1..Len(items) : items[k].task_id # r
    /\ SpawnReturned(r)
         => /\ r \in list_by_session(SpawningSession(r))
            /\ \A s \in Sessions \ {SpawningSession(r)} : r \notin list_by_session(s)
            /\ \A l \in ListenersOf(r) :
                 /\ Len(delivered[l][r]) >= 1
                 /\ delivered[l][r][1] = Event("registered", r, NewRun(SpawningSession(r)))
    /\ \A l \in ListenersOf(r) :
         (RunCompleted(r) \/ "completed" \in SeqToSet(DeliveredStatuses(l, r)))
           => /\ DeliveredEvents(l, r) = <<"registered", "updated", "updated">>
              /\ DeliveredStatuses(l, r) = <<"pending", "running", "completed">>
              /\ delivered[l][r][3].result = "answer"

\* execute has returned for a run that still waits for a lane slot, while the
\* run that holds the slot has completed and been seen by its listeners
C9_Witness ==
  \E r \in RunIds, q \in RunIds :
    /\ run_pc[r] = "in_lane"
    /\ items[ItemOf(r)].task = "none"
    /\ active_count = max_concurrent
    /\ RunCompleted(q)
    /\ \A l \in ListenersOf(q) : DeliveredStatuses(l, q) = <<"pending", "running", "completed">>


\* a transition the run state machine does not have: out of a terminal status,
\* or from RUNNING back to PENDING
InvalidTransition(from, to) ==
  \/ from \in Terminal /\ to # from
  \/ from = "running" /\ to = "pending"

\* the status a listener saw last for run r
LastDelivered(l, r) == delivered[l][r][Len(delivered[l][r])].status

\* C18: no update_status call carries out a transition the run state machine
\* does not have: no step takes the in-memory run, the stored record or the
\* status a listener is told along an invalid transition.
C18_InvalidTransitionRejected ==
  [][\A r \in RunIds :
       /\ (r \in DOMAIN runs /\ r \in DOMAIN runs')
            => ~InvalidTransition(runs[r].status, runs'[r].status)
       /\ (r \in DOMAIN store /\ r \in DOMAIN store')
            => ~InvalidTransition(store[r].status, store'[r].status)
       /\ \A l \in ListenerIds :
            (delivered[l][r] # <<>> /\ delivered'[l][r] # delivered[l][r])
              => ~InvalidTransition(LastDelivered(l, r), LastDelivered(l, r)')]_vars

\* update_status(ERROR) has been carried out on a run that was COMPLETED, and
\* its record has been written
C18_Witness ==
  \E r \in RunIds :
    /\ Len(mem_history[r]) >= 2
    /\ mem_history[r][Len(mem_history[r]) - 1].status = "completed"
    /\ runs[r].status = "error"
    /\ r \in DOMAIN store
    /\ store[r].status = "error"


\* C26: after a store write that failed, the caller has the error, the failed
\* call emitted no event and the in-memory state is the last persisted one: a
\* failed register leaves no run in memory; a run_subagent that raised because
\* its update_status could not write leaves the run as the store holds it.
C26_RolledBackOnFailure ==
  \A r \in RunIds :
    /\ run_pc[r] = "spawn_failed"
         => /\ r \notin DOMAIN runs
            /\ \A l \in ListenerIds : delivered[l][r] = <<>>
    /\ run_pc[r] = "op_raise"
         => /\ r \in DOMAIN store
            /\ runs[r] = store[r]
            /\ \A l \in ListenersOf(r) : LastDelivered(l, r) = store[r].status

\* the write of update_status(ERROR) failed after RUNNING had been written:
\* run_subagent has raised, the run is ERROR in memory and RUNNING in the store
C26_Witness ==
  \E r \in RunIds :
    /\ run_pc[r] = "op_raise"
    /\ runs[r].status = "error"
    /\ r \in DOMAIN store
    /\ store[r].status = "running"
    /\ \A l \in ListenersOf(r) : LastDelivered(l, r) = "running"


\* C28: a run whose status is terminal has exactly one of result and error:
\* a result and no error when COMPLETED, an error and no result when ERROR or
\* TIMEOUT.
C28_ResultXorError ==
  \A r \in DOMAIN runs :
    /\ runs[r].status = "completed" => runs[r].result # "none" /\ runs[r].error = "none"
    /\ runs[r].status \in {"error", "timeout"} => runs[r].error # "none" /\ runs[r].result = "none"

\* run_subagent has ended with the run ERROR, holding the result of the
\* sub-agent and the error of the failed store write
C28_Witness ==
  \E r \in DOMAIN runs :
    /\ run_pc[r] = "done"
    /\ runs[r].status = "error"
    /\ runs[r].result = "answer"
    /\ runs[r].error = "store write failed"


\* ------------------------------- the registry under any caller of its API
\* the arguments update_status is called with
StatusArgs ==
  {[status |-> "pending", result |-> "none", error |-> "none"],
   [status |-> "running", result |-> "none", error |-> "none"],
   [status |-> "completed", result |-> "answer", error |-> "none"],
   [status |-> "timeout", result |-> "none", error |-> "Subagent execution timed out"],
   [status |-> "error", result |-> "none", error |-> "agent failed"]}

RECURSIVE SumLen(_, _)
SumLen(f, S) == IF S = {} THEN 0 ELSE LET x == CHOOSE x \in S : TRUE IN Len(f[x]) + SumLen(f, S \ {x})

\* register and update_status calls made so far
api_calls == SumLen(mem_history, RunIds)

\* register(run) with a new PENDING run, up to its _persist
RegistryRegister(r, s) ==
  /\ api_calls < MaxApiCalls
  /\ SpawnExecute(r, s)

\* register after its _persist: 'registered' is notified, the call returns
RegistryRegisterReturns(r) ==
  /\ run_pc[r] = "register_persist"
  /\ store' = Put(store, r, runs[r])
  /\ Notify(runs[r].parent_session_id, "registered", r, runs[r])
  /\ run_pc' = [run_pc EXCEPT ![r] = "api_idle"]
  /\ UNCHANGED <<runs, mem_history>>

\* update_status(run_id, status, result, error) up to its _persist
RegistryUpdateStatus(r, args) ==
  /\ api_calls < MaxApiCalls
  /\ run_pc[r] = "api_idle"
  /\ SetRun(r, UpdateStatus(runs[r], args.status, args.result, args.error), "api_persist")
  /\ UNCHANGED <<store, delivered>>

\* update_status after its _persist: 'updated' is notified, the call returns
RegistryUpdateReturns(r) ==
  /\ run_pc[r] = "api_persist"
  /\ store' = Put(store, r, runs[r])
  /\ Notify(runs[r].parent_session_id, "updated", r, runs[r])
  /\ run_pc' = [run_pc EXCEPT ![r] = "api_idle"]
  /\ UNCHANGED <<runs, mem_history>>

\* the store write of register or update_status raises: the call raises
RegistryWriteFails(r) ==
  /\ run_pc[r] \in {"register_persist", "api_persist"}
  /\ run_pc' = [run_pc EXCEPT ![r] = "api_idle"]
  /\ UNCHANGED <<runs, store, delivered, mem_history>>

ApiRegister == (\E r \in RunIds, s \in Sessions : RegistryRegister(r, s)) /\ UNCHANGED <<laneVars, appVars>>

ApiRegisterReturns == (\E r \in RunIds : RegistryRegisterReturns(r)) /\ UNCHANGED <<laneVars, appVars>>

ApiUpdateStatus == (\E r \in RunIds, args \in StatusArgs : RegistryUpdateStatus(r, args)) /\ UNCHANGED <<laneVars, appVars>>

ApiUpdateReturns == (\E r \in RunIds : RegistryUpdateReturns(r)) /\ UNCHANGED <<laneVars, appVars>>

ApiWriteFails == (\E r \in RunIds : RegistryWriteFails(r)) /\ UNCHANGED <<laneVars, appVars>>

InitRegistryApi ==
  /\ LaneIdle
  /\ RegistryIdle
  /\ SessionIdle
  /\ HistoryIdle
  /\ GatewayIdle
  /\ LoopIdle
  /\ SubagentIdle
  /\ AccessIdle
  /\ HubIdle
  /\ ConnectionIdle
  /\ CronIdle
  /\ PluginsIdle
  /\ TraceIdle

NextRegistryApi ==
  \/ ApiRegister
  \/ ApiRegisterReturns
  \/ ApiUpdateStatus
  \/ ApiUpdateReturns
  \/ ApiWriteFails

SpecRegistryApi == InitRegistryApi /\ [][NextRegistryApi]_vars

\* C27: the completed_at of a run is set if and only if its status is
\* COMPLETED, ERROR or TIMEOUT.
C27_CompletedAtIffTerminal ==
  \A r \in DOMAIN runs : runs[r].completed_at <=> runs[r].status \in Terminal

\* update_status(RUNNING) has returned for a run that was COMPLETED: the run
\* is RUNNING with completed_at set, in memory and in the store
C27_Witness ==
  \E r \in DOMAIN runs :
    /\ run_pc[r] = "api_idle"
    /\ runs[r].status = "running"
    /\ runs[r].completed_at
    /\ r \in DOMAIN store
    /\ store[r] = runs[r]


\* ---------------------------------------- the runner of a sub-agent run
\* the names of the tools plugin_registry.get_all_tools() can return
PluginToolNames == {"web_search", "spawn_subagent"}

\* AgentExecutor.__init__ that keeps every tool it is given
AgentExecutorToolsUnfiltered(given, is_subagent) == given

\* AgentExecutor.__init__: self.tools, from the tools it is given
AgentExecutorTools(given, is_subagent) ==
  IF is_subagent THEN {t \in given : t # "spawn_subagent"} ELSE given

\* the local tool list of run_subagent: tools = [WebSearchTool()]
run_subagent_tools == {"web_search"}

\* SpawnSubAgentTool.execute called by the planner of a session
PlannerSpawnExecute(r, s) ==
  /\ SpawnExecute(r, s)
  /\ spawn_calls' = Append(spawn_calls, [by |-> "planner", run |-> r])
  /\ UNCHANGED runner

\* run_subagent after update_status(RUNNING): AgentExecutor(is_subagent=True, ...)
RunnerCreate(r, given) ==
  /\ run_pc[r] = "agent"
  /\ ~runner[r].created
  /\ runner' = [runner EXCEPT ![r] = [created |-> TRUE,
                                      tools |-> AgentExecutorTools(given, TRUE),
                                      calls |-> <<>>]]
  /\ UNCHANGED <<regVars, spawn_calls>>

\* one tool call of a response in runner.run_subagent: the tool is looked up by
\* name in the local tool list and executed if it is there; executing
\* spawn_subagent registers a run
SubagentToolCall(r, name) ==
  /\ run_pc[r] = "agent"
  /\ runner[r].created
  /\ Len(runner[r].calls) < MaxSubCalls
  /\ runner' = [runner EXCEPT ![r].calls =
                  Append(@, [name |-> name, executed |-> name \in run_subagent_tools])]
  /\ IF name \in run_subagent_tools /\ name = "spawn_subagent"
     THEN \E q \in RunIds :
            /\ SpawnExecute(q, SpawningSession(q))
            /\ spawn_calls' = Append(spawn_calls, [by |-> "subagent", run |-> q])
     ELSE UNCHANGED <<regVars, spawn_calls>>

\* runner.run_subagent returns or raises
RunnerOutcome(r, out) ==
  /\ runner[r].created
  /\ AgentOutcome(r, out)
  /\ UNCHANGED subVars

otherThanSubagent == <<sessVars, histVars, gwVars, loopVars, acVars, hubVars, connVars, cronVars, plugVars, traceVars>>

PlannerSpawn ==
  /\ Len(spawn_calls) < MaxSpawns
  /\ \E r \in RunIds, s \in Sessions : PlannerSpawnExecute(r, s)
  /\ UNCHANGED <<laneVars, otherThanSubagent>>

RunnerCreated ==
  /\ \E r \in RunIds, given \in SUBSET PluginToolNames : RunnerCreate(r, given)
  /\ UNCHANGED <<laneVars, otherThanSubagent>>

RunnerToolCall ==
  /\ \E r \in RunIds, name \in PluginToolNames : SubagentToolCall(r, name)
  /\ UNCHANGED <<laneVars, otherThanSubagent>>

RunnerDone ==
  /\ \E r \in RunIds, out \in {"result", "timeout", "exception"} : RunnerOutcome(r, out)
  /\ UNCHANGED otherThanSubagent

InitSubagent ==
  /\ LaneIdle
  /\ RegistryIdle
  /\ SessionIdle
  /\ HistoryIdle
  /\ GatewayIdle
  /\ LoopIdle
  /\ SubagentIdle
  /\ AccessIdle
  /\ HubIdle
  /\ ConnectionIdle
  /\ CronIdle
  /\ PluginsIdle
  /\ TraceIdle

\* spawn_subagent with the runners of its runs
NextSubagent ==
  \/ PlannerSpawn
  \/ RegisterDone
  \/ RegisterError
  \/ EnqueueRun
  \/ ProcessQueue
  \/ StartRun
  \/ UpdateDone
  \/ UpdateErrorInTry
  \/ UpdateErrorInExcept
  \/ RunnerCreated
  \/ RunnerToolCall
  \/ RunnerDone
  \/ EndRun

SpecSubagent == InitSubagent /\ [][NextSubagent]_vars

\* C23: the runner of a sub-agent run never has spawn_subagent in its tool
\* set, no spawn_subagent tool call of a sub-agent is executed, and every
\* registered run was created by a spawn_subagent call of a planner: there
\* are as many runs as such calls.
C23_NoRecursiveSpawn ==
  /\ \A r \in RunIds :
       /\ runner[r].created => "spawn_subagent" \notin runner[r].tools
       /\ \A i \in 1..Len(runner[r].calls) :
            runner[r].calls[i].name = "spawn_subagent" => ~runner[r].calls[i].executed
  /\ \A i \in 1..Len(spawn_calls) : spawn_calls[i].by = "planner"
  /\ Cardinality(DOMAIN runs) = Len(spawn_calls)

\* a runner that was given spawn_subagent was asked by its provider to call it,
\* and its run completed with no further run registered
C23_Witness ==
  \E r \in RunIds :
    /\ runner[r].created
    /\ runner[r].tools = {"web_search"}
    /\ \E i \in 1..Len(runner[r].calls) : runner[r].calls[i].name = "spawn_subagent"
    /\ RunCompleted(r)
    /\ Cardinality(DOMAIN runs) = 1
    /\ \E q \in RunIds : run_pc[q] = "new"


\* the job of run r was cancelled through the lane, while queued or after dispatch
JobCancelled(r) ==
  \E k \in 1..Len(items) :
    /\ items[k].task_id = r
    /\ items[k].future = "cancelled" \/ items[k].task \in {"cancelling", "cancelled"}

\* C22: a run whose job was cancelled through the lane eventually has status
\* ERROR with error "cancelled".
C22_CancelledRunEndsInError ==
  \A r \in RunIds :
    JobCancelled(r) ~> (r \in DOMAIN runs /\ runs[r].status = "error" /\ runs[r].error = "cancelled")

\* one run was cancelled while queued and is PENDING, another was cancelled
\* while its agent ran, has left the lane and is RUNNING
C22_Witness ==
  \E r, q \in RunIds :
    /\ run_pc[r] = "in_lane" /\ items[ItemOf(r)].future = "cancelled" /\ runs[r].status = "pending"
    /\ run_pc[q] = "cancelled" /\ runs[q].status = "running" /\ q \notin DOMAIN running


\* ------------------------------------------------------ DebounceSession
Texts == {"A", "B"}

Separator == "\n\n"

\* "\n\n".join(buffer): the pieces of the combined text, in order
RECURSIVE Join(_)
Join(buf) ==
  IF buf = <<>> THEN <<>>
  ELSE IF Len(buf) = 1 THEN <<buf[1].text>>
  ELSE <<buf[1].text, Separator>> \o Join(Tail(buf))

FuturePending(f) == f # 0 /\ futures[f] = 0

\* what a future holds once it is cancelled: no result (t) and no exception (-t)
CancelledValue == 0 - (MaxMsgs + 1)

NewCaller(m, fut) ==
  [message |-> m, burst |-> Len(turns), future |-> fut, returned |-> 0,
   cancel_requested |-> FALSE]

\* Task.cancel() of the task self._debounce_task holds: a task inside
\* agent.run gets CancelledError there, which no handler of
\* _debounce_process turns into a resolution of the future
CancelDebounceTask ==
  turns' = IF debounce_task = "running"
           THEN [turns EXCEPT ![Len(turns)].status = "cancelled"]
           ELSE turns

\* handle_message that never joins the pending future
HandleMessageNewFuture(m) ==
  /\ message_buffer' = Append(message_buffer, [text |-> m, caller |-> Len(callers) + 1])
  /\ futures' = Append(futures, 0)
  /\ response_future' = Len(futures) + 1
  /\ callers' = Append(callers, NewCaller(m, Len(futures) + 1))
  /\ CancelDebounceTask
  /\ debounce_task' = "sleeping"

\* handle_message up to its await of the response future
HandleMessage(m) ==
  /\ message_buffer' = Append(message_buffer, [text |-> m, caller |-> Len(callers) + 1])
  /\ IF FuturePending(response_future)
     THEN /\ UNCHANGED <<futures, response_future>>
          /\ callers' = Append(callers, NewCaller(m, response_future))
     ELSE /\ futures' = Append(futures, 0)
          /\ response_future' = Len(futures) + 1
          /\ callers' = Append(callers, NewCaller(m, Len(futures) + 1))
  /\ CancelDebounceTask
  /\ debounce_task' = "sleeping"

\* _debounce_process that joins the buffer and leaves it as it is
DebounceProcessNoClear ==
  /\ debounce_task = "sleeping"
  /\ IF message_buffer = <<>>
     THEN debounce_task' = "done" /\ UNCHANGED <<message_buffer, turns>>
     ELSE /\ UNCHANGED message_buffer
          /\ turns' = Append(turns, [combined |-> Join(message_buffer),
                                     messages |-> message_buffer,
                                     buffer_at_start |-> message_buffer,
                                     status |-> "running"])
          /\ debounce_task' = "running"
  /\ UNCHANGED <<response_future, futures, callers>>

\* _debounce_process from the end of its sleep to the first suspension of
\* agent.run: join, clear, call the planner
DebounceProcess ==
  /\ debounce_task = "sleeping"
  /\ IF message_buffer = <<>>
     THEN debounce_task' = "done" /\ UNCHANGED <<message_buffer, turns>>
     ELSE /\ message_buffer' = <<>>
          /\ turns' = Append(turns, [combined |-> Join(message_buffer),
                                     messages |-> message_buffer,
                                     buffer_at_start |-> <<>>,
                                     status |-> "running"])
          /\ debounce_task' = "running"
  /\ UNCHANGED <<response_future, futures, callers>>

\* agent.run returns or raises: _debounce_process resolves the future
AgentRunEnds(outcome) ==
  /\ debounce_task = "running"
  /\ turns' = [turns EXCEPT ![Len(turns)].status = outcome]
  /\ futures' = IF FuturePending(response_future)
                THEN [futures EXCEPT ![response_future] =
                        IF outcome = "returned" THEN Len(turns) ELSE 0 - Len(turns)]
                ELSE futures
  /\ debounce_task' = "done"
  /\ UNCHANGED <<message_buffer, response_future, callers>>

\* "return await self._response_future" of call i resumes
HandleMessageReturns(i) ==
  /\ callers[i].returned = 0
  /\ futures[callers[i].future] # 0
  /\ callers' = [callers EXCEPT ![i].returned = IF callers[i].cancel_requested
                                                THEN CancelledValue
                                                ELSE futures[callers[i].future]]
  /\ UNCHANGED <<message_buffer, response_future, futures, debounce_task, turns>>

\* Task.cancel() of the task running call i, which is suspended in
\* "await self._response_future": the cancellation is passed on to the future
\* the task waits for, and the task is resumed with CancelledError
HandleMessageCancelled(i) ==
  /\ callers[i].returned = 0
  /\ ~callers[i].cancel_requested
  /\ callers' = [callers EXCEPT ![i].cancel_requested = TRUE]
  /\ futures' = IF futures[callers[i].future] = 0
                THEN [futures EXCEPT ![callers[i].future] = CancelledValue]
                ELSE futures
  /\ UNCHANGED <<message_buffer, response_future, debounce_task, turns>>

otherThanSession == <<laneVars, regVars, histVars, gwVars, loopVars, subVars, acVars, hubVars, connVars, cronVars, plugVars, traceVars>>

Message ==
  /\ Len(callers) < MaxMsgs
  /\ \E m \in Texts : HandleMessage(m)
  /\ UNCHANGED otherThanSession

TimerFires == DebounceProcess /\ UNCHANGED otherThanSession

PlannerEnds == (\E outcome \in {"returned", "raised"} : AgentRunEnds(outcome)) /\ UNCHANGED otherThanSession

CallerResumes == (\E i \in 1..Len(callers) : HandleMessageReturns(i)) /\ UNCHANGED otherThanSession

InitDebounce ==
  /\ LaneIdle
  /\ RegistryIdle
  /\ SessionIdle
  /\ HistoryIdle
  /\ GatewayIdle
  /\ LoopIdle
  /\ SubagentIdle
  /\ AccessIdle
  /\ HubIdle
  /\ ConnectionIdle
  /\ CronIdle
  /\ PluginsIdle
  /\ TraceIdle

NextDebounce ==
  \/ Message
  \/ TimerFires
  \/ PlannerEnds
  \/ CallerResumes

SpecDebounce == InitDebounce /\ [][NextDebounce]_vars

CallerCancel == (\E i \in 1..Len(callers) : HandleMessageCancelled(i)) /\ UNCHANGED otherThanSession

NextDebounceCancel ==
  \/ Message
  \/ TimerFires
  \/ PlannerEnds
  \/ CallerResumes
  \/ CallerCancel

\* the session with callers that may be cancelled while they wait
SpecDebounceCancel == InitDebounce /\ [][NextDebounceCancel]_vars

\* the calls that arrived between the start of turn t-1 and the start of turn t
Burst(t) == {i \in 1..Len(callers) : callers[i].burst = t - 1}

TurnsWith(i) == {u \in 1..Len(turns) : \E j \in 1..Len(turns[u].messages) : turns[u].messages[j].caller = i}

\* C3: when the planner run started for a burst of handle_message calls
\* returns (no further message arrived before), every call of the burst is
\* resolved with the value of that run, a call that has resumed returned
\* that value, and the burst's messages went into exactly one
\* AgentExecutor.run invocation.
C3_BurstOneRun ==
  \A t \in 1..Len(turns) :
    turns[t].status = "returned" =>
      \A i \in Burst(t) :
        /\ futures[callers[i].future] = t
        /\ callers[i].returned \in {0, t}
        /\ TurnsWith(i) = {t}

\* a second turn served a burst of two calls, and both have returned its value
C3_Witness ==
  \E t \in 2..Len(turns) :
    /\ turns[t].status = "returned"
    /\ Cardinality(Burst(t)) >= 2
    /\ \A i \in Burst(t) : callers[i].returned = t

FirstOf(t) == CHOOSE i \in Burst(t) : \A j \in Burst(t) : i <= j

\* C8: each planner run receives the messages of its burst joined in
\* arrival order with a blank-line separator between neighbours, each
\* message exactly once, and the buffer is empty when the run starts.
C8_JoinedInOrder ==
  \A t \in 1..Len(turns) :
    LET K == Cardinality(Burst(t))
        c == turns[t].combined
    IN /\ K >= 1
       /\ Len(c) = 2 * K - 1
       /\ \A j \in 1..K : c[2 * j - 1] = callers[FirstOf(t) + j - 1].message
       /\ \A j \in 1..(K - 1) : c[2 * j] = "\n\n"
       /\ turns[t].buffer_at_start = <<>>

\* a run received "A", "B" of one burst as A \n\n B, after an earlier run
C8_Witness ==
  \E t \in 2..Len(turns) : turns[t].combined = <<"A", "\n\n", "B">>


\* call i arrived while the planner was running turn t: the arrival cancelled
\* the turn, and it is the first call since the turn started
MidPlanning(i, t) ==
  /\ callers[i].burst = t
  /\ t >= 1
  /\ turns[t].status = "cancelled"
  /\ \A j \in 1..(i - 1) : callers[j].burst < t

\* C19: a call that arrives while the planner runs turn t has a handle of its
\* own, shared with no call of the in-flight burst; it is resolved by a later
\* turn that holds its message, and the calls of the in-flight burst are
\* resolved by turn t only.
C19_MidPlanningFreshBurst ==
  \A i \in 1..Len(callers), t \in 1..Len(turns) :
    MidPlanning(i, t) =>
      /\ \A j \in Burst(t) : callers[j].future # callers[i].future
      /\ futures[callers[i].future] # 0
           => \E u \in TurnsWith(i) : u > t /\ futures[callers[i].future] \in {u, 0 - u}
      /\ \A j \in Burst(t) : futures[callers[j].future] \in {0, t, 0 - t}

\* a call of the in-flight burst has returned the response of the later turn
\* that the arrival during its own turn started
C19_Witness ==
  \E i \in 1..Len(callers), t \in 1..Len(turns) :
    /\ MidPlanning(i, t)
    /\ \E j \in Burst(t) : callers[j].returned > t /\ callers[j].returned \in TurnsWith(i)

\* C20: when the planner turn of a burst returns, every call of the burst that
\* was not itself cancelled is resolved with the response of that turn, and has
\* returned it if it has resumed, whichever other calls were cancelled.
C20_CancelKeepsSharedResult ==
  \A t \in 1..Len(turns) :
    turns[t].status = "returned" =>
      \A i \in Burst(t) :
        ~callers[i].cancel_requested
          => /\ futures[callers[i].future] = t
             /\ callers[i].returned \in {0, t}

\* one call of a burst was cancelled, the turn of the burst has returned, and
\* another call of the burst has resumed with CancelledError
C20_Witness ==
  \E t \in 1..Len(turns) :
    /\ turns[t].status = "returned"
    /\ \E i, j \in Burst(t) :
         /\ callers[i].cancel_requested
         /\ ~callers[j].cancel_requested
         /\ callers[j].future = callers[i].future
         /\ callers[j].returned = CancelledValue

\* the planner turn t has run to completion: agent.run has given its outcome
TurnCompleted(t) == turns[t].status \in {"returned", "raised"}

\* C21: the planner turns of a session never overlap and follow each other in
\* burst order: at most one turn is running, it is the last one begun, and
\* every turn before it has run to completion.
C21_TurnsSerialized ==
  \A t \in 1..Len(turns) :
    /\ turns[t].status = "running" => t = Len(turns)
    /\ t < Len(turns) => TurnCompleted(t)

\* the turn of a second burst is running while the turn of the first burst was
\* cut off before it returned
C21_Witness ==
  /\ Len(turns) >= 2
  /\ turns[1].status = "cancelled"
  /\ turns[2].status = "running"
  /\ \E i \in 1..Len(callers) : callers[i].burst = 0 /\ futures[callers[i].future] = 0

\* C35: a planner turn that has started is never cut off by a later
\* handle_message call of the session; an arrival only resets a debounce wait
\* that has not fired yet.
C35_StartedTurnNotCancelled ==
  \A t \in 1..Len(turns) : turns[t].status # "cancelled"

\* a call arrived while turn 1 was inside agent.run; a call that arrives while
\* the timer sleeps is there too (the reset the claim allows)
C35_Witness ==
  /\ Len(turns) >= 1
  /\ turns[1].status = "cancelled"
  /\ debounce_task = "sleeping"
  /\ \E i \in 1..Len(callers) : callers[i].burst = 1

\* C36: every handle_message call that has returned, returned the response
\* (result or exception) of a planner invocation whose combined text held the
\* call's message.
C36_OwnResponse ==
  \A i \in 1..Len(callers) :
    callers[i].returned # 0 =>
      \E u \in TurnsWith(i) : callers[i].returned \in {u, 0 - u}

\* a call has returned the value of a turn that never saw its message
C36_Witness ==
  \E i \in 1..Len(callers) :
    /\ callers[i].returned > 0
    /\ callers[i].returned \notin TurnsWith(i)
    /\ TurnsWith(i) # {}

\* ------------------------- chat.send over the receive loop of a connection
\* the frames the loop has not read yet
Unread == {k \in 1..Len(ws_frames) : ws_frames[k].caller = 0}

\* the client sends a chat.send request with message m; window is the planner
\* turn whose debounce timer is running when the frame arrives (0: none)
ClientSendsFrame(m) ==
  /\ Len(ws_frames) < MaxMsgs
  /\ ws_frames' = Append(ws_frames,
                         [message |-> m,
                          window |-> IF debounce_task = "sleeping" THEN Len(turns) + 1 ELSE 0,
                          caller |-> 0, response |-> 0])
  /\ UNCHANGED <<ws_pc, sessVars>>

\* "data = await websocket.receive_text()" returns the oldest unread frame and
\* gateway.process_message runs _handle_chat_send up to the await inside
\* session.handle_message
LoopReceivesFrame ==
  /\ ws_pc = "receive"
  /\ Unread # {}
  /\ LET k == CHOOSE k \in Unread : \A j \in Unread : k <= j IN
       /\ HandleMessage(ws_frames[k].message)
       /\ ws_frames' = [ws_frames EXCEPT ![k].caller = Len(callers) + 1]
  /\ ws_pc' = "process"

\* handle_message returns or raises, process_message returns the response and
\* the loop sends it: the result, or the error made from the exception
LoopSendsResponse ==
  /\ ws_pc = "process"
  /\ LET k == CHOOSE k \in 1..Len(ws_frames) : ws_frames[k].caller = Len(callers) IN
       /\ HandleMessageReturns(ws_frames[k].caller)
       /\ ws_frames' = [ws_frames EXCEPT ![k].response = futures[callers[ws_frames[k].caller].future]]
  /\ ws_pc' = "receive"

otherThanConnection == <<laneVars, regVars, histVars, gwVars, loopVars, subVars, acVars, hubVars, cronVars, plugVars, traceVars>>

ClientSends == (\E m \in Texts : ClientSendsFrame(m)) /\ UNCHANGED otherThanConnection

LoopReceives == LoopReceivesFrame /\ UNCHANGED otherThanConnection

LoopResponds == LoopSendsResponse /\ UNCHANGED otherThanConnection

InitConnection ==
  /\ LaneIdle
  /\ RegistryIdle
  /\ SessionIdle
  /\ HistoryIdle
  /\ GatewayIdle
  /\ LoopIdle
  /\ SubagentIdle
  /\ AccessIdle
  /\ HubIdle
  /\ ConnectionIdle
  /\ CronIdle
  /\ PluginsIdle
  /\ TraceIdle

NextConnection ==
  \/ ClientSends
  \/ LoopReceives
  \/ TimerFires
  \/ PlannerEnds
  \/ LoopResponds

SpecConnection == InitConnection /\ [][NextConnection]_vars

\* the planner turn t serves frame k: the message of its call went into the turn
ServedBy(k, t) ==
  /\ ws_frames[k].caller # 0
  /\ \E j \in 1..Len(turns[t].messages) : turns[t].messages[j].caller = ws_frames[k].caller

\* C29: a chat.send frame that arrives on the connection while the debounce
\* timer of turn t is running has been handed to the session when the turn
\* begins and is served by that turn, together with the frame that started
\* the timer; its response carries the outcome of that turn.
C29_FramesCoalesced ==
  \A k \in 1..Len(ws_frames) :
    LET t == ws_frames[k].window IN
      (t > 0 /\ Len(turns) >= t) =>
        /\ ServedBy(k, t)
        /\ ws_frames[k].response \in {0, t, 0 - t}

\* two frames arrived within one debounce window and were answered by two
\* planner turns, each with the result of its own turn
C29_Witness ==
  /\ Len(ws_frames) >= 2
  /\ ws_frames[2].window = 1
  /\ ws_frames[1].response = 1
  /\ ws_frames[2].response = 2
  /\ Len(turns) = 2
  /\ Len(turns[1].messages) = 1

\* ------------------------------------- AgentExecutor.run: history window
Roles == {"user", "assistant"}

\* Python's s[start:] for a list s
PySliceFrom(s, start) ==
  LET n == Len(s)
      b == IF start < 0
           THEN (IF n + start < 0 THEN 0 ELSE n + start)
           ELSE (IF start > n THEN n ELSE start)
  IN SubSeq(s, b + 1, n)

\* "if len(h) > N: h = h[-N:]"
Window(h, n) == IF Len(h) > n THEN PySliceFrom(h, 0 - n) ELSE h

\* run() up to the await of the on_agent_start hook
AgentRunBegin ==
  /\ turn_pc = "idle"
  /\ turn_count < MaxTurns
  /\ message_history' = Append(message_history, "user")
  /\ history_turn' = Append(history_turn, turn_count + 1)
  /\ turn_pc' = "hook"
  /\ turn_count' = turn_count + 1
  /\ UNCHANGED <<max_history_messages, last_turn, cleared_before>>

\* run() after the hook: windowing, then the provider loop, which works on
\* the local list messages and leaves self._message_history alone
AgentRunWindow ==
  /\ turn_pc = "hook"
  /\ message_history' = Window(message_history, max_history_messages)
  /\ history_turn' = Window(history_turn, max_history_messages)
  /\ turn_pc' = "loop"
  /\ UNCHANGED <<max_history_messages, last_turn, turn_count, cleared_before>>

\* the loop ends with final_response, appended when it is not empty
AgentRunFinish(has_response) ==
  /\ turn_pc = "loop"
  /\ message_history' = IF has_response THEN Append(message_history, "assistant") ELSE message_history
  /\ history_turn' = IF has_response THEN Append(history_turn, turn_count) ELSE history_turn
  /\ turn_pc' = "idle"
  /\ last_turn' = "completed"
  /\ UNCHANGED <<max_history_messages, turn_count, cleared_before>>

\* run() leaves through an exception of the provider or a cancellation
AgentRunAbort ==
  /\ turn_pc \in {"hook", "loop"}
  /\ turn_pc' = "idle"
  /\ last_turn' = "failed"
  /\ UNCHANGED <<max_history_messages, message_history, turn_count, history_turn, cleared_before>>

\* clear_history(), from session.clear
ClearHistory ==
  /\ message_history' = <<>>
  /\ history_turn' = <<>>
  /\ cleared_before' = turn_count
  /\ UNCHANGED <<max_history_messages, turn_pc, last_turn, turn_count>>

otherThanHistory == <<laneVars, regVars, sessVars, gwVars, loopVars, subVars, acVars, hubVars, connVars, cronVars, plugVars, traceVars>>

TurnBegin == AgentRunBegin /\ UNCHANGED otherThanHistory

TurnWindow == AgentRunWindow /\ UNCHANGED otherThanHistory

TurnFinish == (\E has_response \in BOOLEAN : AgentRunFinish(has_response)) /\ UNCHANGED otherThanHistory

TurnAbort == AgentRunAbort /\ UNCHANGED otherThanHistory

Clear == ClearHistory /\ UNCHANGED otherThanHistory

\* any window the configuration accepts from 0 up, any starting history
InitHistory ==
  /\ LaneIdle
  /\ RegistryIdle
  /\ SessionIdle
  /\ GatewayIdle
  /\ LoopIdle
  /\ SubagentIdle
  /\ AccessIdle
  /\ HubIdle
  /\ ConnectionIdle
  /\ CronIdle
  /\ PluginsIdle
  /\ TraceIdle
  /\ max_history_messages \in 0..MaxWindow
  /\ message_history \in UNION {[1..n -> Roles] : n \in 0..MaxInit}
  /\ turn_pc = "idle"
  /\ last_turn = "none"
  /\ turn_count = 0
  /\ history_turn = [i \in 1..Len(message_history) |-> 0]
  /\ cleared_before = 0 - 1

NextHistory ==
  \/ TurnBegin
  \/ TurnWindow
  \/ TurnFinish
  \/ TurnAbort
  \/ Clear

SpecHistory == InitHistory /\ [][NextHistory]_vars

\* C4: once a planner turn has completed, and whatever the starting
\* history and the configured max_history_messages, the history holds at
\* most max_history_messages + 1 messages.
C4_HistoryWindow ==
  (turn_pc = "idle" /\ last_turn = "completed") =>
    Len(message_history) <= max_history_messages + 1

\* a second turn completed under a window of zero messages
C4_Witness ==
  /\ turn_pc = "idle"
  /\ last_turn = "completed"
  /\ turn_count >= 2
  /\ max_history_messages = 0


\* C40: after clear_history() the history holds no message of a turn that
\* began before the clear, also when the clear came while that turn was in
\* flight.
C40_ClearedStaysCleared ==
  \A i \in 1..Len(history_turn) : history_turn[i] > cleared_before

\* the history was cleared while a turn was in flight, and the turn has
\* completed with a response
C40_Witness ==
  /\ cleared_before = turn_count
  /\ turn_count >= 1
  /\ turn_pc = "idle"
  /\ last_turn = "completed"
  /\ message_history = <<"assistant">>


\* ------------------------------------------------------- GatewayHandler
PARSE_ERROR == -32700
INVALID_REQUEST == -32600
METHOD_NOT_FOUND == -32601
INVALID_PARAMS == -32602
INTERNAL_ERROR == -32603

\* self._methods after _register_default_methods
Methods == {"chat.send", "session.clear", "agent.stop", "system.ping"}

\* the "id" member of a JSON object: absent, null, an integer, a string,
\* or a number with a fractional part such as 1.5
IdValues == {"absent", "null", "int", "str", "float"}

\* the "method" member: absent, not a string, or a method name
MethodValues == {"absent", "nonstring", "unknown.method"} \cup Methods

\* the "params" member: absent, an object with or without a non-empty
\* "message", a non-empty array, the empty array, or a scalar
ParamValues == {"absent", "with_message", "without_message", "array", "empty_array", "scalar"}

\* what session_manager.handle_message does for chat.send
SessionOutcomes == {"responds", "raises"}

ObjectFrames ==
  [syntax : {"object"}, method : MethodValues, id : IdValues,
   params : ParamValues, session : SessionOutcomes]

\* text that is not JSON, a JSON array, a JSON scalar, or a JSON object
Frames ==
  {[NoFrame EXCEPT !.syntax = x] : x \in {"not_json", "array", "scalar"}} \cup ObjectFrames

\* Optional[Union[str, int]] of the pydantic models
ValidId(id) == id \in {"absent", "null", "int", "str"}

\* JsonRpcRequest(**data) validates
ValidRequest(f) ==
  /\ f.method \notin {"absent", "nonstring"}
  /\ f.params # "scalar"
  /\ ValidId(f.id)

\* data.get("id") and request.id: None for an absent or null member
IdOf(f) == IF f.id = "absent" THEN "null" ELSE f.id

Raised == [NoResponse EXCEPT !.result = "raised"]

\* _error_response: None, the serialised error, or the ValidationError of
\* JsonRpcResponse(id=req_id, ...)
ErrorResponse(req_id, code) ==
  IF req_id = "null" /\ code \notin {PARSE_ERROR, INVALID_REQUEST} THEN NoResponse
  ELSE IF ~ValidId(req_id) THEN Raised
  ELSE [sent |-> TRUE, id |-> req_id, error |-> code, result |-> "null"]

ResultResponse(req_id, result) == [sent |-> TRUE, id |-> req_id, error |-> 0, result |-> result]

\* the registered handler: its result, or the code of its JsonRpcError
Handler(f) ==
  IF f.method = "system.ping" THEN [result |-> "pong", code |-> 0]
  ELSE IF f.method = "agent.stop" THEN [result |-> "stopped", code |-> 0]
  ELSE IF f.method = "session.clear" THEN [result |-> "cleared", code |-> 0]
  ELSE IF f.params # "with_message" THEN [result |-> "null", code |-> INVALID_PARAMS]
  ELSE IF f.session = "raises" THEN [result |-> "null", code |-> INTERNAL_ERROR]
  ELSE [result |-> "reply", code |-> 0]

\* the handler of f runs
Dispatched(f) ==
  /\ f.syntax = "object"
  /\ ValidRequest(f)
  /\ f.method \in Methods
  /\ f.params # "array"

\* process_message before its outer "except Exception"
Processed(f) ==
  IF f.syntax = "not_json" THEN ErrorResponse("null", PARSE_ERROR)
  ELSE IF f.syntax = "array" THEN ErrorResponse("null", INVALID_REQUEST)
  ELSE IF f.syntax = "scalar" THEN Raised
  ELSE IF ~ValidRequest(f) THEN ErrorResponse(IdOf(f), INVALID_REQUEST)
  ELSE IF f.method \notin Methods
       THEN (IF IdOf(f) # "null" THEN ErrorResponse(IdOf(f), METHOD_NOT_FOUND) ELSE NoResponse)
  ELSE IF f.params = "array" THEN ErrorResponse(IdOf(f), INVALID_PARAMS)
  ELSE IF Handler(f).code # 0 THEN ErrorResponse(IdOf(f), Handler(f).code)
  ELSE IF IdOf(f) # "null" THEN ResultResponse(IdOf(f), Handler(f).result)
  ELSE NoResponse

\* the outer "except Exception" returns None
process_message(f) == IF Processed(f) = Raised THEN NoResponse ELSE Processed(f)

\* the websocket loop reads the next frame
ReceiveText(f) ==
  /\ frame' = f
  /\ response' = [NoResponse EXCEPT !.result = "processing"]
  /\ UNCHANGED <<message_history, history_turn, cleared_before>>

\* gateway.process_message(session_id, data), with the history
\* session.clear empties
ProcessMessage ==
  /\ frame # NoFrame
  /\ response.result = "processing"
  /\ response' = process_message(frame)
  /\ message_history' = IF Dispatched(frame) /\ frame.method = "session.clear"
                        THEN <<>> ELSE message_history
  /\ history_turn' = IF Dispatched(frame) /\ frame.method = "session.clear"
                     THEN <<>> ELSE history_turn
  /\ cleared_before' = IF Dispatched(frame) /\ frame.method = "session.clear"
                       THEN turn_count ELSE cleared_before
  /\ UNCHANGED frame

otherThanGateway == <<laneVars, regVars, sessVars, loopVars, max_history_messages, turn_pc, last_turn, turn_count, subVars, acVars, hubVars, connVars, cronVars, plugVars, traceVars>>

Receive ==
  /\ response.result # "processing"
  /\ \E f \in Frames : ReceiveText(f)
  /\ UNCHANGED otherThanGateway

Process == ProcessMessage /\ UNCHANGED otherThanGateway

InitGateway ==
  /\ LaneIdle
  /\ RegistryIdle
  /\ SessionIdle
  /\ HistoryIdle
  /\ GatewayIdle
  /\ LoopIdle
  /\ SubagentIdle
  /\ AccessIdle
  /\ HubIdle
  /\ ConnectionIdle
  /\ CronIdle
  /\ PluginsIdle
  /\ TraceIdle

NextGateway ==
  \/ Receive
  \/ Process

SpecGateway == InitGateway /\ [][NextGateway]_vars

HasBeenProcessed == frame # NoFrame /\ response.result # "processing"

\* C5: a frame that is a request (a JSON object with a non-null id) gets
\* exactly one response, carrying that id; a well-formed notification (id
\* absent or null) gets none, whether its method is known, unknown or its
\* handler fails; a response with a null id is a parse error or an
\* invalid-request error.
C5_OneResponsePerRequest ==
  HasBeenProcessed =>
    /\ (frame.syntax = "object" /\ IdOf(frame) # "null") =>
         (response.sent /\ response.id = frame.id)
    /\ (frame.syntax = "object" /\ IdOf(frame) = "null" /\ ValidRequest(frame)) =>
         ~response.sent
    /\ (response.sent /\ response.id = "null") =>
         response.error \in {PARSE_ERROR, INVALID_REQUEST}

\* a request for a known method whose id is a fractional number was processed
C5_Witness ==
  /\ HasBeenProcessed
  /\ frame.method = "system.ping"
  /\ frame.id = "float"

\* the frame carries an id the response can repeat
Answerable(f) == f.id \in {"int", "str"}

\* C13: each failure class gets its code: text that is not JSON -32700; a
\* batch array, a non-object value or an object without a string method
\* -32600; an unknown method with an id -32601; list params, or chat.send
\* without a message, with an id -32602; another failure of the handler
\* -32603; and no handler runs for a parse error, an invalid request, an
\* unknown method or list params.
C13_ErrorCodes ==
  HasBeenProcessed =>
    /\ frame.syntax = "not_json" =>
         (response.sent /\ response.error = PARSE_ERROR)
    /\ (frame.syntax \in {"array", "scalar"}
          \/ (frame.syntax = "object" /\ frame.method \in {"absent", "nonstring"})) =>
         (response.sent /\ response.error = INVALID_REQUEST)
    /\ (frame.syntax = "object" /\ ValidRequest(frame) /\ Answerable(frame)) =>
         /\ frame.method \notin Methods =>
              (response.sent /\ response.error = METHOD_NOT_FOUND)
         /\ (frame.method \in Methods /\ frame.params \in {"array", "empty_array"}) =>
              (response.sent /\ response.error = INVALID_PARAMS /\ ~Dispatched(frame))
         /\ (frame.method = "chat.send" /\ frame.params \in {"absent", "without_message"}) =>
              (response.sent /\ response.error = INVALID_PARAMS)
         /\ (frame.method = "chat.send" /\ frame.params = "with_message"
               /\ frame.session = "raises") =>
              (response.sent /\ response.error = INTERNAL_ERROR)
    /\ (frame.syntax # "object" \/ ~ValidRequest(frame) \/ frame.method \notin Methods) =>
         ~Dispatched(frame)

\* a JSON value that is neither an object nor an array was processed
C13_Witness == HasBeenProcessed /\ frame.syntax = "scalar"


\* ------------------------------------------------------ WebSocketManager
\* the session a websocket connects to (the path parameter of its endpoint)
SocketSession(w) == IF w = "w3" THEN "s2" ELSE "s1"

\* the orders in which a set can be iterated
Orders(S) == {o \in [1..Cardinality(S) -> S] : \A i, j \in 1..Cardinality(S) : o[i] = o[j] => i = j}

\* connect(websocket, session_id): accept, then add under the lock
HubConnect(w) ==
  /\ socket_state[w] = "new"
  /\ socket_state' = [socket_state EXCEPT ![w] = "open"]
  /\ connections' = Put(connections, SocketSession(w),
                        (IF SocketSession(w) \in DOMAIN connections
                         THEN connections[SocketSession(w)] ELSE {}) \cup {w})
  /\ UNCHANGED <<received, hub_calls>>

\* the peer of an open websocket goes away (send_text raises from now on) or
\* stops reading (send_text does not return any more)
SocketFails(w, how) ==
  /\ socket_state[w] = "open"
  /\ socket_state' = [socket_state EXCEPT ![w] = how]
  /\ UNCHANGED <<connections, received, hub_calls>>

\* a call whose loop has not ended
InFlight(c) == hub_calls[c].pc # "done"

\* send_to_session(session_id, data) up to its first send: the connections of
\* the session are copied under the lock.  The events of a session come from
\* its planner, which awaits each _emit_event before it goes on
HubSendToSession(sid, order) ==
  /\ Len(hub_calls) < MaxEvents
  /\ \A c \in 1..Len(hub_calls) : ~(InFlight(c) /\ hub_calls[c].kind = "session" /\ hub_calls[c].session = sid)
  /\ order \in Orders(IF sid \in DOMAIN connections THEN connections[sid] ELSE {})
  /\ hub_calls' = Append(hub_calls, [kind |-> "session", session |-> sid, addressed |-> order,
                             sent |-> 0, disconnected |-> <<>>, raised |-> {},
                             pc |-> "sending"])
  /\ UNCHANGED <<connections, socket_state, received>>

\* broadcast(data) up to its first send: every (session_id, websocket) pair is listed
HubBroadcast(order) ==
  /\ Len(hub_calls) < MaxEvents
  /\ order \in Orders(UNION {connections[sid] : sid \in DOMAIN connections})
  /\ hub_calls' = Append(hub_calls, [kind |-> "broadcast", session |-> "all", addressed |-> order,
                             sent |-> 0, disconnected |-> <<>>, raised |-> {},
                             pc |-> "sending"])
  /\ UNCHANGED <<connections, socket_state, received>>

\* one "await websocket.send_text(message)" of call c returns or raises; on a
\* websocket that does not take data it does neither
HubSendText(c) ==
  /\ hub_calls[c].pc = "sending"
  /\ hub_calls[c].sent < Len(hub_calls[c].addressed)
  /\ LET w == hub_calls[c].addressed[hub_calls[c].sent + 1] IN
       /\ socket_state[w] \in {"open", "gone"}
       /\ IF socket_state[w] = "open"
          THEN /\ received' = [received EXCEPT ![w] = Append(@, c)]
               /\ hub_calls' = [hub_calls EXCEPT ![c].sent = @ + 1]
          ELSE /\ received' = received
               /\ hub_calls' = [hub_calls EXCEPT
                              ![c].sent = @ + 1,
                              ![c].raised = @ \cup {w},
                              ![c].disconnected = IF hub_calls[c].kind = "session"
                                                  THEN Append(@, w) ELSE @]
  /\ UNCHANGED <<connections, socket_state>>

Discard(conns, sid, ws) ==
  IF sid \in DOMAIN conns THEN [conns EXCEPT ![sid] = @ \ ws] ELSE conns

\* the loop of call c has ended: send_to_session discards the websockets of
\* its disconnected list under the lock, broadcast returns
HubSendEnd(c) ==
  /\ hub_calls[c].pc = "sending"
  /\ hub_calls[c].sent = Len(hub_calls[c].addressed)
  /\ connections' = IF hub_calls[c].kind = "session"
                    THEN Discard(connections, hub_calls[c].session, SeqToSet(hub_calls[c].disconnected))
                    ELSE connections
  /\ hub_calls' = [hub_calls EXCEPT ![c].pc = "done"]
  /\ UNCHANGED <<socket_state, received>>

otherThanHub == <<laneVars, regVars, sessVars, histVars, gwVars, loopVars, subVars, acVars, connVars, cronVars, plugVars, traceVars>>

Connect == (\E w \in WebSockets : HubConnect(w)) /\ UNCHANGED otherThanHub

SocketGoes == (\E w \in WebSockets : SocketFails(w, "gone")) /\ UNCHANGED otherThanHub

SocketStalls == (\E w \in WebSockets : SocketFails(w, "stalled")) /\ UNCHANGED otherThanHub

Publish ==
  /\ \E sid \in Sessions, order \in UNION {[1..n -> WebSockets] : n \in 0..Cardinality(WebSockets)} :
       HubSendToSession(sid, order)
  /\ UNCHANGED otherThanHub

Broadcast ==
  /\ \E order \in UNION {[1..n -> WebSockets] : n \in 0..Cardinality(WebSockets)} : HubBroadcast(order)
  /\ UNCHANGED otherThanHub

SendText == (\E c \in 1..Len(hub_calls) : HubSendText(c)) /\ UNCHANGED otherThanHub

SendEnd == (\E c \in 1..Len(hub_calls) : HubSendEnd(c)) /\ UNCHANGED otherThanHub

InitHub ==
  /\ LaneIdle
  /\ RegistryIdle
  /\ SessionIdle
  /\ HistoryIdle
  /\ GatewayIdle
  /\ LoopIdle
  /\ SubagentIdle
  /\ AccessIdle
  /\ HubIdle
  /\ ConnectionIdle
  /\ CronIdle
  /\ PluginsIdle
  /\ TraceIdle

NextHub ==
  \/ Connect
  \/ SocketGoes
  \/ SocketStalls
  \/ Publish
  \/ Broadcast
  \/ SendText
  \/ SendEnd

\* every send that can return or raise does, every loop that has ended returns
SpecHub == InitHub /\ [][NextHub]_vars /\ WF_vars(SendText) /\ WF_vars(SendEnd)

\* the websockets the hub holds
Subscribers == UNION {connections[sid] : sid \in DOMAIN connections}

\* C25: when a call has returned, every websocket whose send failed in it has
\* been removed from the subscriber sets, and every other websocket the call
\* addressed has received its event.
C25_FailedSubscriberRemoved ==
  \A c \in 1..Len(hub_calls) :
    hub_calls[c].pc = "done" =>
      /\ hub_calls[c].raised \cap Subscribers = {}
      /\ \A w \in SeqToSet(hub_calls[c].addressed) \ hub_calls[c].raised : c \in SeqToSet(received[w])

\* a send_to_session call has returned after a failed send: the websocket is
\* removed and the other websocket of the session, addressed after it, has the event
C25_Witness ==
  \E c \in 1..Len(hub_calls) :
    /\ hub_calls[c].kind = "session"
    /\ hub_calls[c].pc = "done"
    /\ Len(hub_calls[c].addressed) = 2
    /\ hub_calls[c].raised = {hub_calls[c].addressed[1]}
    /\ hub_calls[c].addressed[1] \notin Subscribers
    /\ c \in SeqToSet(received[hub_calls[c].addressed[2]])

\* C30: a websocket that takes data and is addressed by a call eventually
\* receives the event of the call, whatever the other websockets do.
C30_SlowSubscriberDoesNotBlock ==
  \A c \in 1..MaxEvents, w \in WebSockets :
    (Len(hub_calls) >= c /\ w \in SeqToSet(hub_calls[c].addressed) /\ socket_state[w] = "open")
      ~> (c \in SeqToSet(received[w]) \/ socket_state[w] # "open")

\* a call stands at a websocket that takes no data while the websocket after
\* it in the call is open and has not received the event
C30_Witness ==
  \E c \in 1..Len(hub_calls) :
    /\ hub_calls[c].pc = "sending"
    /\ Len(hub_calls[c].addressed) = 2
    /\ hub_calls[c].sent = 0
    /\ socket_state[hub_calls[c].addressed[1]] = "stalled"
    /\ socket_state[hub_calls[c].addressed[2]] = "open"
    /\ received[hub_calls[c].addressed[2]] = <<>>

\* ------------------------------ AgentExecutor.run: provider loop and tools
\* the value of run()'s parameter max_iterations
max_iterations == MaxIterations

\* self.tools: the names of the registered tools
tools == {"safe_tool", "nuclear_launch"}

\* the names a response of the LLM may ask for
ToolNames == tools \cup {"ghost_tool"}

default_role == "user"

\* config.security.roles
roles ==
  [r \in {"admin", "guest", "restricted"} |->
     IF r = "admin" THEN [allow |-> <<"*">>, deny |-> <<>>]
     ELSE IF r = "guest" THEN [allow |-> <<"safe_tool">>, deny |-> <<"nuclear_*">>]
     ELSE [allow |-> <<"*">>, deny |-> <<"nuclear_launch">>]]

\* the roles an AgentExecutor is built with: those of the table and one outside it
RoleNames == DOMAIN roles \cup {"stranger"}

\* fnmatch.fnmatch(name, pattern) on the patterns of the role table
fnmatch(name, pattern) ==
  \/ pattern = "*"
  \/ pattern = name
  \/ pattern = "nuclear_*" /\ name = "nuclear_launch"

\* check_permission that looks at the allow patterns first
check_permission_allow_first(self, r, name) ==
  IF ~self.enabled THEN TRUE
  ELSE LET eff == IF r \in DOMAIN self.roles THEN r ELSE self.default_role
           role_config == IF eff \in DOMAIN self.roles THEN self.roles[eff]
                          ELSE [allow |-> <<>>, deny |-> <<>>]
       IN IF \E i \in 1..Len(role_config.allow) : fnmatch(name, role_config.allow[i])
          THEN TRUE
          ELSE FALSE

\* AccessControl.check_permission(self, role, tool_name)
AccessControl_check_permission(self, r, name) ==
  IF ~self.enabled THEN TRUE
  ELSE LET eff == IF r \in DOMAIN self.roles THEN r ELSE self.default_role
           role_config == IF eff \in DOMAIN self.roles THEN self.roles[eff]
                          ELSE [allow |-> <<>>, deny |-> <<>>]
       IN IF \E i \in 1..Len(role_config.deny) : fnmatch(name, role_config.deny[i])
          THEN FALSE
          ELSE \E i \in 1..Len(role_config.allow) : fnmatch(name, role_config.allow[i])

\* the global instance, as the planner's _execute_tool asks it
check_permission(r, name) ==
  AccessControl_check_permission([enabled |-> enabled, default_role |-> default_role,
                                  roles |-> roles], r, name)

\* ---------------------------------------- AccessControl on its own
\* the role table with the default role configured as well
roles_with_default ==
  [r \in DOMAIN roles \cup {default_role} |->
     IF r = default_role THEN [allow |-> <<"safe_tool", "nuclear_launch">>, deny |-> <<"nuclear_*">>]
     ELSE roles[r]]

\* the configurations _load_config can leave in an AccessControl
AccessConfigs ==
  [enabled : BOOLEAN, default_role : {default_role, "guest"},
   roles : {<<>>, roles, roles_with_default}]

\* one check_permission(role, tool_name) call, with its return value
CheckPermission(r, name) ==
  /\ Len(permission_checks) < MaxChecks
  /\ permission_checks' =
       Append(permission_checks,
              [role |-> r, tool_name |-> name,
               returned |-> AccessControl_check_permission(access_control, r, name)])
  /\ UNCHANGED access_control

Check ==
  /\ \E r \in RoleNames \cup {default_role}, name \in ToolNames : CheckPermission(r, name)
  /\ UNCHANGED <<laneVars, regVars, sessVars, histVars, gwVars, loopVars, subVars, hubVars, connVars, cronVars, plugVars, traceVars>>

InitPermission ==
  /\ LaneIdle
  /\ RegistryIdle
  /\ SessionIdle
  /\ HistoryIdle
  /\ GatewayIdle
  /\ LoopIdle
  /\ SubagentIdle
  /\ HubIdle
  /\ ConnectionIdle
  /\ CronIdle
  /\ PluginsIdle
  /\ TraceIdle
  /\ access_control \in AccessConfigs
  /\ permission_checks = <<>>

NextPermission == Check

SpecPermission == InitPermission /\ [][NextPermission]_vars

\* the role a check is evaluated as, and its patterns
EffectiveRole(r) == IF r \in DOMAIN access_control.roles THEN r ELSE access_control.default_role

PatternsOf(r, kind) ==
  IF r \in DOMAIN access_control.roles
  THEN {access_control.roles[r][kind][i] : i \in 1..Len(access_control.roles[r][kind])}
  ELSE {}

\* C24: check_permission(role, tool) returns true iff security is disabled, or
\* no deny pattern of the effective role matches the tool and at least one of
\* its allow patterns does; the effective role of a role that is not
\* configured is the default role.
C24_PermissionRule ==
  \A i \in 1..Len(permission_checks) :
    LET c == permission_checks[i]
        eff == EffectiveRole(c.role)
    IN c.returned <=>
         \/ ~access_control.enabled
         \/ /\ \A pat \in PatternsOf(eff, "deny") : ~fnmatch(c.tool_name, pat)
            /\ \E pat \in PatternsOf(eff, "allow") : fnmatch(c.tool_name, pat)

\* security is on and a role outside the table was refused a tool that an
\* allow pattern of the configured default role matches, by its deny pattern
C24_Witness ==
  /\ access_control.enabled
  /\ access_control.default_role \in DOMAIN access_control.roles
  /\ \E i \in 1..Len(permission_checks) :
       LET c == permission_checks[i] IN
         /\ c.role \notin DOMAIN access_control.roles
         /\ ~c.returned
         /\ \E pat \in PatternsOf(access_control.default_role, "allow") : fnmatch(c.tool_name, pat)
         /\ \E pat \in PatternsOf(access_control.default_role, "deny") : fnmatch(c.tool_name, pat)

\* what tool.execute(**arguments) under asyncio.wait_for does
Behaviours == {"returns_success", "returns_failure", "raises", "times_out"}

ToolOutcome(success, output, executed, raised) ==
  [success |-> success, output |-> output, executed |-> executed, raised |-> raised]

\* _execute_tool without the permission check
execute_tool_unchecked(name, behaviour) ==
  IF name \notin tools THEN ToolOutcome(FALSE, "Unknown tool", FALSE, FALSE)
  ELSE IF behaviour = "times_out" THEN ToolOutcome(FALSE, "Tool execution timed out", TRUE, FALSE)
  ELSE IF behaviour = "raises" THEN ToolOutcome(FALSE, "Tool execution error", TRUE, FALSE)
  ELSE ToolOutcome(behaviour = "returns_success", "tool output", TRUE, FALSE)

\* _execute_tool without its "except Exception"
execute_tool_uncaught(name, behaviour) ==
  IF name \notin tools THEN ToolOutcome(FALSE, "Unknown tool", FALSE, FALSE)
  ELSE IF ~check_permission(role, name) THEN ToolOutcome(FALSE, "Permission Denied", FALSE, FALSE)
  ELSE IF behaviour = "times_out" THEN ToolOutcome(FALSE, "Tool execution timed out", TRUE, FALSE)
  ELSE IF behaviour = "raises" THEN ToolOutcome(FALSE, "", TRUE, TRUE)
  ELSE ToolOutcome(behaviour = "returns_success", "tool output", TRUE, FALSE)

\* _execute_tool: the ToolResult, whether tool.execute was invoked, and
\* whether an exception leaves _execute_tool
execute_tool(name, behaviour) ==
  IF name \notin tools THEN ToolOutcome(FALSE, "Unknown tool", FALSE, FALSE)
  ELSE IF ~check_permission(role, name) THEN ToolOutcome(FALSE, "Permission Denied", FALSE, FALSE)
  ELSE IF behaviour = "times_out" THEN ToolOutcome(FALSE, "Tool execution timed out", TRUE, FALSE)
  ELSE IF behaviour = "raises" THEN ToolOutcome(FALSE, "Tool execution error", TRUE, FALSE)
  ELSE ToolOutcome(behaviour = "returns_success", "tool output", TRUE, FALSE)

CallsOfTurn == Cardinality({i \in 1..Len(messages) : messages[i].role = "tool"}) + (Len(tool_calls) - call_idx)

\* the responses the LLM may give: no tool call, or up to the remaining calls of the model
Responses == UNION {[1..n -> ToolNames] : n \in 0..(MaxCalls - CallsOfTurn)}

\* run() from the windowing to its first provider.generate
LoopEnter ==
  /\ events' = <<"thinking">>
  /\ messages' = <<>>
  /\ executions' = <<>>
  /\ tool_calls' = <<>>
  /\ call_idx' = 0
  /\ final_response' = ""
  /\ abort_cause' = "none"
  /\ IF 0 < max_iterations
     THEN iteration' = 1 /\ requests' = <<0>> /\ loop_pc' = "llm"
     ELSE iteration' = 0 /\ requests' = <<>> /\ loop_pc' = "ended"
  /\ UNCHANGED <<role, enabled>>

\* provider.generate returns: tool calls, or the final response
GenerateReturns(calls, content) ==
  /\ loop_pc = "llm"
  /\ IF calls # <<>>
     THEN /\ events' = Append(events, "tool_calls")
          /\ messages' = Append(messages, [role |-> "assistant", iteration |-> iteration,
                                           idx |-> 0, name |-> "", output |-> content,
                                           success |-> TRUE, tool_calls |-> calls])
          /\ tool_calls' = calls
          /\ call_idx' = 0
          /\ loop_pc' = "tools"
          /\ UNCHANGED final_response
     ELSE /\ final_response' = content
          /\ loop_pc' = "ended"
          /\ UNCHANGED <<events, messages, tool_calls, call_idx>>
  /\ UNCHANGED <<role, enabled, iteration, requests, executions, abort_cause>>

\* run() is left through an exception: nothing after the raise is executed
LoopAbort(cause) ==
  /\ AgentRunAbort
  /\ loop_pc' = "none"
  /\ abort_cause' = cause
  /\ UNCHANGED <<role, enabled, iteration, tool_calls, call_idx, messages, requests,
                 executions, events, final_response>>

\* the body of "for tool_call in response.tool_calls" for the next call,
\* then the end of the iteration after the last call
ToolCall(behaviour) ==
  /\ loop_pc = "tools"
  /\ call_idx < Len(tool_calls)
  /\ LET name == tool_calls[call_idx + 1]
         result == execute_tool(name, behaviour)
         last == call_idx + 1 = Len(tool_calls)
     IN IF result.raised
        THEN LoopAbort("tool")
        ELSE /\ executions' = IF result.executed
                              THEN Append(executions, [iteration |-> iteration, idx |-> call_idx + 1,
                                                       name |-> name, behaviour |-> behaviour])
                              ELSE executions
             /\ events' = Append(events, "tool_result")
             /\ messages' = Append(messages, [role |-> "tool", iteration |-> iteration,
                                              idx |-> call_idx + 1, name |-> name,
                                              output |-> result.output,
                                              success |-> result.success, tool_calls |-> <<>>])
             /\ call_idx' = call_idx + 1
             /\ IF ~last THEN UNCHANGED <<loop_pc, iteration, requests>>
                ELSE IF iteration < max_iterations
                THEN /\ iteration' = iteration + 1
                     /\ requests' = Append(requests, Len(messages'))
                     /\ loop_pc' = "llm"
                ELSE /\ loop_pc' = "ended"
                     /\ UNCHANGED <<iteration, requests>>
             /\ UNCHANGED <<role, enabled, tool_calls, final_response, abort_cause>>
             /\ UNCHANGED histVars

\* after the loop: history, the complete event, return
LoopFinish ==
  /\ loop_pc = "ended"
  /\ AgentRunFinish(final_response # "")
  /\ events' = Append(events, "complete")
  /\ loop_pc' = "none"
  /\ UNCHANGED <<role, enabled, iteration, tool_calls, call_idx, messages, requests,
                 executions, final_response, abort_cause>>

otherThanPlanner == <<laneVars, regVars, sessVars, gwVars, subVars, acVars, hubVars, connVars, cronVars, plugVars, traceVars>>

\* the first run() of the executor; a later turn differs only in
\* self._message_history, which the loop never reads
PlannerBegin == turn_count = 0 /\ AgentRunBegin /\ UNCHANGED loopVars /\ UNCHANGED otherThanPlanner

PlannerEnterLoop == AgentRunWindow /\ LoopEnter /\ UNCHANGED otherThanPlanner

LLMResponds ==
  /\ \E calls \in Responses, content \in {"", "text"} : GenerateReturns(calls, content)
  /\ UNCHANGED histVars
  /\ UNCHANGED otherThanPlanner

LLMFails == loop_pc = "llm" /\ LoopAbort("provider") /\ UNCHANGED otherThanPlanner

ToolCallHandled == (\E behaviour \in Behaviours : ToolCall(behaviour)) /\ UNCHANGED otherThanPlanner

TurnCancelled == loop_pc \in {"llm", "tools"} /\ LoopAbort("cancelled") /\ UNCHANGED otherThanPlanner

PlannerFinish == LoopFinish /\ UNCHANGED otherThanPlanner

InitPlanner ==
  /\ LaneIdle
  /\ RegistryIdle
  /\ SessionIdle
  /\ HistoryIdle
  /\ GatewayIdle
  /\ SubagentIdle
  /\ AccessIdle
  /\ HubIdle
  /\ ConnectionIdle
  /\ CronIdle
  /\ PluginsIdle
  /\ TraceIdle
  /\ role \in RoleNames
  /\ enabled \in BOOLEAN
  /\ loop_pc = "none"
  /\ iteration = 0
  /\ tool_calls = <<>>
  /\ call_idx = 0
  /\ messages = <<>>
  /\ requests = <<>>
  /\ executions = <<>>
  /\ events = <<>>
  /\ final_response = ""
  /\ abort_cause = "none"

NextPlanner ==
  \/ PlannerBegin
  \/ PlannerEnterLoop
  \/ LLMResponds
  \/ LLMFails
  \/ ToolCallHandled
  \/ TurnCancelled
  \/ PlannerFinish

\* the event loop runs the turn; the provider answers every request and a
\* tool call ends or is timed out by wait_for
SpecPlanner ==
  /\ InitPlanner
  /\ [][NextPlanner]_vars
  /\ WF_vars(PlannerEnterLoop)
  /\ WF_vars(LLMResponds)
  /\ WF_vars(ToolCallHandled)
  /\ WF_vars(PlannerFinish)


\* ---- tool calls of a turn
ToolMessages == {i \in 1..Len(messages) : messages[i].role = "tool"}

\* the tool messages appended for call idx of iteration it
MessagesOf(it, idx) == {i \in ToolMessages : messages[i].iteration = it /\ messages[i].idx = idx}

Executed(it, idx) == \E e \in 1..Len(executions) : executions[e].iteration = it /\ executions[e].idx = idx

\* every provider.generate call of a later iteration was given message i
FedBack(i) == \A k \in 1..Len(requests) : k > messages[i].iteration => requests[k] >= i

Denied(i) == i \in ToolMessages /\ ~check_permission(role, messages[i].name)

TurnReturned == turn_pc = "idle" /\ last_turn = "completed"

\* run() has ended: it returned after the complete event, or the provider
\* failed, or the turn was cancelled
TurnEndedWell ==
  /\ turn_pc = "idle"
  /\ \/ last_turn = "completed" /\ events # <<>> /\ events[Len(events)] = "complete"
     \/ last_turn = "failed" /\ abort_cause \in {"provider", "cancelled"}

FinishedBatches ==
  {a \in 1..Len(messages) :
     /\ messages[a].role = "assistant"
     /\ \/ messages[a].iteration < iteration
        \/ loop_pc = "ended"
        \/ TurnReturned}

\* C12: no tool outcome makes run() raise; an unknown tool, a raising tool
\* and a timed-out tool each leave exactly one failure tool message for the
\* call ("Unknown tool", "Tool execution error", "Tool execution timed
\* out"); every call of a response gets its message, in order, and every
\* later request to the LLM contains them; the turn ends with the complete
\* event unless the provider fails or the turn is cancelled.
C12_ToolFailuresContained ==
  /\ [](abort_cause # "tool")
  /\ [](\A i \in ToolMessages :
          /\ MessagesOf(messages[i].iteration, messages[i].idx) = {i}
          /\ FedBack(i)
          /\ messages[i].name \notin tools =>
               (messages[i].output = "Unknown tool" /\ ~messages[i].success))
  /\ [](\A e \in 1..Len(executions) :
          \E i \in MessagesOf(executions[e].iteration, executions[e].idx) :
            /\ executions[e].behaviour = "times_out" =>
                 (messages[i].output = "Tool execution timed out" /\ ~messages[i].success)
            /\ executions[e].behaviour = "raises" =>
                 (messages[i].output = "Tool execution error" /\ ~messages[i].success))
  /\ [](\A a \in FinishedBatches :
          \A k \in 1..Len(messages[a].tool_calls) :
            /\ a + k \in MessagesOf(messages[a].iteration, k)
            /\ messages[a + k].name = messages[a].tool_calls[k])
  /\ [](TurnReturned => events[Len(events)] = "complete")
  /\ ((turn_pc = "loop") ~> TurnEndedWell)

\* a call timed out, the next call raised, and the turn returned after complete
C12_Witness ==
  /\ TurnReturned
  /\ events[Len(events)] = "complete"
  /\ \E i, j \in ToolMessages :
       /\ i < j
       /\ messages[i].output = "Tool execution timed out"
       /\ messages[j].output = "Tool execution error"

\* the data of the complete event: {"response": final_response}
CompleteData == [response |-> final_response]

\* the data of a complete event says the turn was cut short: it carries
\* something besides the response text
HasTruncationMarker(data) == DOMAIN data # {"response"}

\* the while loop ended on its condition: the response to the last permitted
\* provider call asked for tools again
Truncated ==
  /\ Len(requests) = max_iterations
  /\ \E i \in 1..Len(messages) :
       messages[i].role = "assistant" /\ messages[i].iteration = max_iterations

CompleteEvents == {i \in 1..Len(events) : events[i] = "complete"}

\* C31: a planner turn makes at most max_iterations provider calls and, with
\* every provider and tool call returning, ends; a turn that returned emitted
\* exactly one complete event, as its last event; when the limit was reached
\* with no response free of tool calls, that complete event carries a
\* truncation marker (the returned text may be empty).
C31_TurnBounded ==
  /\ [](Len(requests) <= max_iterations)
  /\ [](TurnReturned => CompleteEvents = {Len(events)})
  /\ [](TurnReturned /\ Truncated => HasTruncationMarker(CompleteData))
  /\ ((turn_pc = "loop") ~> TurnEndedWell)

\* the turn used up its provider calls on tool-calling responses and returned
\* the empty text after the complete event
C31_Witness ==
  /\ TurnReturned
  /\ Truncated
  /\ final_response = ""
  /\ events[Len(events)] = "complete"

\* ------------------------------- tool execution and the permission check
\* the role of the runner spawn_subagent builds: AgentExecutor(is_subagent=True,
\* session_id=...) is given no role and takes config.security.default_role
runner_role == access_control.default_role

\* spawn_subagent under any security configuration
InitSecured ==
  /\ LaneIdle
  /\ RegistryIdle
  /\ SessionIdle
  /\ HistoryIdle
  /\ GatewayIdle
  /\ LoopIdle
  /\ SubagentIdle
  /\ access_control \in AccessConfigs
  /\ permission_checks = <<>>
  /\ HubIdle
  /\ ConnectionIdle
  /\ CronIdle
  /\ PluginsIdle
  /\ TraceIdle

SpecSecured == InitSecured /\ [][NextSubagent]_vars

\* C37: no planner executes a tool that check_permission(role, tool) refuses:
\* every tool call a sub-agent has executed is one its role is permitted, and
\* every tool.execute of a top-level turn was for a call that is not denied.
C37_NoToolWithoutPermission ==
  /\ \A r \in RunIds :
       \A i \in 1..Len(runner[r].calls) :
         runner[r].calls[i].executed =>
           AccessControl_check_permission(access_control, runner_role, runner[r].calls[i].name)
  /\ \A e \in 1..Len(executions) : check_permission(role, executions[e].name)

\* security is enabled, the role of the runner may not use web_search, and the
\* runner has executed web_search
C37_Witness ==
  /\ access_control.enabled
  /\ ~AccessControl_check_permission(access_control, runner_role, "web_search")
  /\ \E r \in RunIds :
       \E i \in 1..Len(runner[r].calls) :
         runner[r].calls[i].name = "web_search" /\ runner[r].calls[i].executed

\* ----------------------------------------------------------- CronScheduler
\* the seconds an "@every Ns" expression names; validate_cron_expression
\* accepts every integer, 0 and negative ones included
Intervals == {0 - 1, 0, 1}

\* calculate_next_run(expression) for "@every Ns" at time now:
\* _parse_simple_interval returns now + seconds, or None when seconds is 0
calculate_next_run(interval, now) == IF interval = 0 THEN None ELSE now + interval

\* _run_job that leaves next_run alone when the executor raised
next_run_after_keep_on_failure(job, outcome, now) ==
  IF outcome = "raised" THEN job.next_run ELSE calculate_next_run(job.interval, now)

\* next_run as _run_job sets it, in the try block and in the except block
next_run_after(job, outcome, now) == calculate_next_run(job.interval, now)

\* self._jobs.values(): dict order is insertion order
JobOrder == <<"j1", "j2">>

\* store.list_enabled_jobs()
list_enabled_jobs == SelectSeq(JobOrder, LAMBDA j : cron_jobs[j].enabled)

\* "if job.next_run and job.next_run <= now"
Due(j, now) == cron_jobs[j].next_run # None /\ cron_jobs[j].next_run <= now

\* the first job at or after position pos of the tick's list that is due (0: none)
NextDue(jobs, pos, now) ==
  LET D == {k \in pos..Len(jobs) : Due(jobs[k], now)}
  IN IF D = {} THEN 0 ELSE CHOOSE k \in D : \A l \in D : k <= l

\* the for loop of _check_and_run_jobs from position pos to its next
\* suspension: the executor call of the next due job, or the end of the tick
CheckFrom(jobs, pos, now, n, log) ==
  LET d == NextDue(jobs, pos, now) IN
    IF d = 0
    THEN /\ tick' = [pc |-> "sleeping", now |-> now, jobs |-> <<>>, pos |-> 0, n |-> n]
         /\ firings' = log
    ELSE /\ tick' = [pc |-> "executing", now |-> now, jobs |-> jobs, pos |-> d, n |-> n]
         /\ firings' = Append(log, [job |-> jobs[d], tick |-> n, now |-> now,
                                    enabled |-> cron_jobs[jobs[d]].enabled,
                                    outcome |-> "pending", ended_at |-> None,
                                    next_run |-> None])

\* start(): next_run of every job that has none or whose next_run has passed
\* is recomputed, then the loop task is created
SchedulerStart ==
  /\ tick.pc = "stopped"
  /\ cron_jobs' = [j \in DOMAIN cron_jobs |->
                     IF cron_jobs[j].next_run = None \/ cron_jobs[j].next_run < clock
                     THEN [cron_jobs[j] EXCEPT !.next_run = calculate_next_run(cron_jobs[j].interval, clock)]
                     ELSE cron_jobs[j]]
  /\ tick' = [tick EXCEPT !.pc = "sleeping"]
  /\ UNCHANGED <<clock, firings>>

\* _run_loop calls _check_and_run_jobs: now and the list are taken once
CheckAndRunJobs ==
  /\ tick.pc = "sleeping"
  /\ tick.n < MaxTicks
  /\ CheckFrom(list_enabled_jobs, 1, clock, tick.n + 1, firings)
  /\ UNCHANGED <<cron_jobs, clock>>

\* the executor call of _run_job returns or raises; update_job's save may fail
\* (save1: in the try block, save2: in the except block).  An exception that
\* leaves _run_job ends the tick in _run_loop's handler
RunJobEnds(outcome, save1_ok, save2_ok) ==
  /\ tick.pc = "executing"
  /\ LET j == tick.jobs[tick.pos]
         job == cron_jobs[j]
         updated == IF outcome = "returned"
                    THEN [job EXCEPT !.last_run = clock, !.run_count = @ + 1,
                                     !.next_run = next_run_after(job, outcome, clock)]
                    ELSE [job EXCEPT !.next_run = next_run_after(job, outcome, clock)]
         leaves == IF outcome = "returned" THEN ~save1_ok /\ ~save2_ok ELSE ~save2_ok
         log == [firings EXCEPT ![Len(firings)].outcome = outcome,
                                ![Len(firings)].ended_at = clock,
                                ![Len(firings)].next_run = updated.next_run]
     IN /\ cron_jobs' = [cron_jobs EXCEPT ![j] = updated]
        /\ IF leaves
           THEN /\ tick' = [pc |-> "sleeping", now |-> tick.now, jobs |-> <<>>, pos |-> 0, n |-> tick.n]
                /\ firings' = log
           ELSE CheckFrom(tick.jobs, tick.pos + 1, tick.now, tick.n, log)
  /\ UNCHANGED clock

\* disable_job(job_id), returning True
disable_job(j) ==
  /\ cron_jobs[j].enabled
  /\ cron_jobs' = [cron_jobs EXCEPT ![j].enabled = FALSE]
  /\ UNCHANGED <<clock, tick, firings>>

\* enable_job(job_id)
enable_job(j) ==
  /\ ~cron_jobs[j].enabled
  /\ cron_jobs' = [cron_jobs EXCEPT ![j].enabled = TRUE,
                                    ![j].next_run = calculate_next_run(cron_jobs[j].interval, clock)]
  /\ UNCHANGED <<clock, tick, firings>>

\* time passes
ClockAdvance ==
  /\ clock < MaxClock
  /\ clock' = clock + 1
  /\ UNCHANGED <<cron_jobs, tick, firings>>

otherThanCron == <<laneVars, regVars, sessVars, histVars, gwVars, loopVars, subVars, acVars, hubVars, connVars, plugVars, traceVars>>

Start == SchedulerStart /\ UNCHANGED otherThanCron

Tick == CheckAndRunJobs /\ UNCHANGED otherThanCron

JobEnds ==
  /\ \E outcome \in {"returned", "raised"}, save1_ok, save2_ok \in BOOLEAN :
       RunJobEnds(outcome, save1_ok, save2_ok)
  /\ UNCHANGED otherThanCron

Disable == (\E j \in DOMAIN cron_jobs : disable_job(j)) /\ UNCHANGED otherThanCron

Enable == (\E j \in DOMAIN cron_jobs : enable_job(j)) /\ UNCHANGED otherThanCron

TimePasses == ClockAdvance /\ UNCHANGED otherThanCron

\* two jobs added with add_job at time 0, any interval, enabled or not
InitCron ==
  /\ LaneIdle
  /\ RegistryIdle
  /\ SessionIdle
  /\ HistoryIdle
  /\ GatewayIdle
  /\ LoopIdle
  /\ SubagentIdle
  /\ AccessIdle
  /\ HubIdle
  /\ ConnectionIdle
  /\ PluginsIdle
  /\ TraceIdle
  /\ \E iv \in [JobIds -> Intervals], en \in [JobIds -> BOOLEAN] :
       cron_jobs = [j \in JobIds |->
                      [enabled |-> en[j], interval |-> iv[j],
                       next_run |-> calculate_next_run(iv[j], 0),
                       last_run |-> None, run_count |-> 0]]
  /\ clock = 0
  /\ tick = [pc |-> "stopped", now |-> 0, jobs |-> <<>>, pos |-> 0, n |-> 0]
  /\ firings = <<>>

NextCron ==
  \/ Start
  \/ Tick
  \/ JobEnds
  \/ Disable
  \/ Enable
  \/ TimePasses

SpecCron == InitCron /\ [][NextCron]_vars

FiringsOf(j) == {f \in 1..Len(firings) : firings[f].job = j}

Ended(f) == firings[f].outcome # "pending"

Returned(j) == {f \in FiringsOf(j) : firings[f].outcome = "returned"}

\* C32: a firing that ended, with the executor returning or raising, left the
\* job with next_run recomputed from the time it ended; a job is fired at most
\* once per tick; a firing that follows a failed one of the same job comes at
\* or after the next_run the failed one set; run_count is the number of
\* firings whose executor returned and last_run the end of the last of them.
C32_FiringAdvancesNextRun ==
  /\ \A f \in 1..Len(firings) :
       Ended(f) =>
         firings[f].next_run = calculate_next_run(cron_jobs[firings[f].job].interval, firings[f].ended_at)
  /\ \A f, g \in 1..Len(firings) :
       (f < g /\ firings[f].job = firings[g].job) =>
         /\ firings[f].tick < firings[g].tick
         /\ firings[f].next_run # None
         /\ firings[f].next_run <= firings[g].now
  /\ \A j \in DOMAIN cron_jobs :
       /\ cron_jobs[j].run_count = Cardinality(Returned(j))
       /\ cron_jobs[j].last_run =
            IF Returned(j) = {} THEN None
            ELSE firings[CHOOSE f \in Returned(j) : \A g \in Returned(j) : g <= f].ended_at

\* a job was fired, its executor raised, and it was fired again in a later
\* tick where its executor returned
C32_Witness ==
  \E f, g \in 1..Len(firings) :
    /\ f < g
    /\ firings[f].job = firings[g].job
    /\ firings[f].outcome = "raised"
    /\ firings[g].outcome = "returned"
    /\ cron_jobs[firings[g].job].run_count = 1

\* C39: no job is fired after disable_job returned for it and before it is
\* enabled again: every executor call was made for a job that was enabled at
\* that moment.
C39_DisabledNotFired ==
  \A f \in 1..Len(firings) : firings[f].enabled

\* a due job was disabled while another job of the tick was executing, and
\* was fired in the same tick
C39_Witness ==
  \E f, g \in 1..Len(firings) :
    /\ f < g
    /\ firings[f].tick = firings[g].tick
    /\ firings[f].job # firings[g].job
    /\ ~firings[g].enabled

\* ---------------------------------------------------------- PluginRegistry
\* enabled_plugins, in the order of plugin_map
PluginOrder == <<"core", "memory">>

\* register_plugin(plugin_class()) for each enabled plugin: a new object is
\* created and stored under the plugin's name, replacing the one that was there
RECURSIVE RegisterPlugins(_, _, _)
RegisterPlugins(names, instances, plugins) ==
  IF names = <<>> THEN [instances |-> instances, plugins |-> plugins]
  ELSE RegisterPlugins(Tail(names),
                       Append(instances, [name |-> Head(names), initialized |-> FALSE, on_loads |-> 0]),
                       Put(plugins, Head(names), Len(instances) + 1))

\* register_hook for every event of plugin.hooks
RegisterHooks(hooks, evs, handler) ==
  [e \in HookEvents |-> IF e \in evs THEN Append(hooks[e], handler) ELSE hooks[e]]

\* initialize(): every registered object without _initialized gets on_load
\* (which raises for the plugins in failing), then its hooks are registered
\* and _initialized is set
RECURSIVE Initialize(_, _, _, _, _)
Initialize(names, instances, plugins, hooks, failing) ==
  IF names = <<>> THEN [instances |-> instances, hooks |-> hooks]
  ELSE LET n == Head(names)
           i == plugins[n]
       IN IF instances[i].initialized
          THEN Initialize(Tail(names), instances, plugins, hooks, failing)
          ELSE IF n \in failing
          THEN Initialize(Tail(names), [instances EXCEPT ![i].on_loads = @ + 1],
                          plugins, hooks, failing)
          ELSE Initialize(Tail(names),
                          [instances EXCEPT ![i].on_loads = @ + 1, ![i].initialized = TRUE],
                          plugins,
                          RegisterHooks(hooks, plugin_classes[n], [plugin |-> n, instance |-> i]),
                          failing)

\* the plugin part of websocket_endpoint for one new connection
ConnectionPlugins(failing) ==
  /\ Len(plugin_instances) < MaxConnections * Len(PluginOrder)
  /\ LET reg == RegisterPlugins(PluginOrder, plugin_instances, plugin_registry.plugins)
         ini == Initialize(PluginOrder, reg.instances, reg.plugins, plugin_registry.hooks, failing)
     IN /\ plugin_instances' = ini.instances
        /\ plugin_registry' = [plugins |-> reg.plugins, hooks |-> ini.hooks]
  /\ UNCHANGED <<plugin_classes, hook_calls>>

\* trigger_hook(event): every handler of the event is invoked, in order
trigger_hook(e) ==
  /\ hook_calls' = plugin_registry.hooks[e]
  /\ UNCHANGED <<plugin_classes, plugin_instances, plugin_registry>>

otherThanPlugins == <<laneVars, regVars, sessVars, histVars, gwVars, loopVars, subVars, acVars, hubVars, connVars, cronVars, traceVars>>

NewConnection == (\E failing \in SUBSET PluginNames : ConnectionPlugins(failing)) /\ UNCHANGED otherThanPlugins

TriggerHook == (\E e \in HookEvents : trigger_hook(e)) /\ UNCHANGED otherThanPlugins

\* plugin classes with any hooks; the classes of plugin_map declare none
InitPlugins ==
  /\ LaneIdle
  /\ RegistryIdle
  /\ SessionIdle
  /\ HistoryIdle
  /\ GatewayIdle
  /\ LoopIdle
  /\ SubagentIdle
  /\ AccessIdle
  /\ HubIdle
  /\ ConnectionIdle
  /\ CronIdle
  /\ TraceIdle
  /\ plugin_classes \in [PluginNames -> SUBSET HookEvents]
  /\ plugin_instances = <<>>
  /\ plugin_registry = [plugins |-> <<>>, hooks |-> [e \in HookEvents |-> <<>>]]
  /\ hook_calls = <<>>

NextPlugins ==
  \/ NewConnection
  \/ TriggerHook

SpecPlugins == InitPlugins /\ [][NextPlugins]_vars

\* the objects of plugin n whose on_load returned
Loaded(n) == {i \in 1..Len(plugin_instances) :
                plugin_instances[i].name = n /\ plugin_instances[i].initialized}

HandlersOf(h, n) == {k \in 1..Len(h) : h[k].plugin = n}

\* C33: however often the connections register and initialize a plugin name,
\* on_load has run to its end for it at most once, each of its hook events has
\* at most one handler of it, and a hook event invokes it at most once.
C33_InitializationIdempotent ==
  \A n \in PluginNames :
    /\ Cardinality(Loaded(n)) <= 1
    /\ \A e \in HookEvents : Cardinality(HandlersOf(plugin_registry.hooks[e], n)) <= 1
    /\ Cardinality(HandlersOf(hook_calls, n)) <= 1

\* two connections were made, on_load of the memory plugin ran to its end for
\* both, and a hook event has invoked two handlers of one plugin
C33_Witness ==
  /\ Cardinality(Loaded("memory")) = 2
  /\ \E n \in PluginNames : Cardinality(HandlersOf(hook_calls, n)) = 2

\* ------------------------------------------------------------ SessionTrace
\* _write_event: one line appended to the events file of the session
WriteEvent(log, w, type, turn) ==
  Append(log, [writer |-> w, event_type |-> type, turn |-> turn])

\* AgentExecutor.__init__ of a sub-agent runner: create_session(session_id)
\* makes a new SessionTrace over the same events file, with _turn = 0.  The
\* planner has spawned the sub-agent in one of its turns
RunnerTraceCreate(w) ==
  /\ w # "planner"
  /\ ~trace_sessions[w].created
  /\ trace_sessions["planner"].turn >= 1
  /\ trace_sessions' = [trace_sessions EXCEPT ![w].created = TRUE]
  /\ UNCHANGED journal

\* run(): start_session on the first turn, then start_turn
PlannerStartTurn ==
  /\ trace_sessions["planner"].created
  /\ ~trace_sessions["planner"].in_turn
  /\ LET t == trace_sessions["planner"].turn + 1
         log == IF t = 1 THEN WriteEvent(journal, "planner", "session.start", None) ELSE journal
     IN /\ Len(log) < MaxRecords
        /\ journal' = WriteEvent(log, "planner", "turn.start", t)
        /\ trace_sessions' = [trace_sessions EXCEPT !["planner"].turn = t, !["planner"].in_turn = TRUE]

\* run_subagent(): start_turn, once in the life of a runner
RunnerStartTurn(w) ==
  /\ w # "planner"
  /\ trace_sessions[w].created
  /\ trace_sessions[w].turn = 0
  /\ Len(journal) < MaxRecords
  /\ journal' = WriteEvent(journal, w, "turn.start", 1)
  /\ trace_sessions' = [trace_sessions EXCEPT ![w].turn = 1, ![w].in_turn = TRUE]

\* log_llm_request, log_llm_response, log_tool_call, log_tool_result inside a turn
TraceLog(w, type) ==
  /\ trace_sessions[w].in_turn
  /\ Len(journal) < MaxRecords
  /\ journal' = WriteEvent(journal, w, type, trace_sessions[w].turn)
  /\ UNCHANGED trace_sessions

\* end_turn
TraceEndTurn(w) ==
  /\ trace_sessions[w].in_turn
  /\ Len(journal) < MaxRecords
  /\ journal' = WriteEvent(journal, w, "turn.end", trace_sessions[w].turn)
  /\ trace_sessions' = [trace_sessions EXCEPT ![w].in_turn = FALSE]

otherThanTrace == <<laneVars, regVars, sessVars, histVars, gwVars, loopVars, subVars, acVars, hubVars, connVars, cronVars, plugVars>>

RunnerBuilt == (\E w \in Tracers : RunnerTraceCreate(w)) /\ UNCHANGED otherThanTrace

PlannerTurnStarts == PlannerStartTurn /\ UNCHANGED otherThanTrace

RunnerTurnStarts == (\E w \in Tracers : RunnerStartTurn(w)) /\ UNCHANGED otherThanTrace

Logs ==
  /\ \E w \in Tracers, type \in {"llm.request", "llm.response", "tool.call", "tool.result"} :
       TraceLog(w, type)
  /\ UNCHANGED otherThanTrace

TurnEnds == (\E w \in Tracers : TraceEndTurn(w)) /\ UNCHANGED otherThanTrace

\* the session exists: its planner was built by DebounceSession.__init__
InitTrace ==
  /\ LaneIdle
  /\ RegistryIdle
  /\ SessionIdle
  /\ HistoryIdle
  /\ GatewayIdle
  /\ LoopIdle
  /\ SubagentIdle
  /\ AccessIdle
  /\ HubIdle
  /\ ConnectionIdle
  /\ CronIdle
  /\ PluginsIdle
  /\ trace_sessions = [w \in Tracers |-> IF w = "planner" THEN [NoTrace EXCEPT !.created = TRUE] ELSE NoTrace]
  /\ journal = <<>>

NextTrace ==
  \/ RunnerBuilt
  \/ PlannerTurnStarts
  \/ RunnerTurnStarts
  \/ Logs
  \/ TurnEnds

SpecTrace == InitTrace /\ [][NextTrace]_vars

\* the records of the journal that carry a turn number
Numbered == {i \in 1..Len(journal) : journal[i].turn # None}

\* C34: in the journal of a session the turn number never decreases from one
\* record to a later one, whichever executors of the session wrote them.
C34_TurnNeverDecreases ==
  \A i, j \in Numbered : i < j => journal[i].turn <= journal[j].turn

\* the planner is in its second turn and the runner of a sub-agent it spawned
\* has appended a record
C34_Witness ==
  /\ trace_sessions["planner"].turn = 2
  /\ \E i, j \in Numbered :
       /\ i < j
       /\ journal[i].writer = "planner"
       /\ journal[i].turn = 2
       /\ journal[j].writer # "planner"

====
